---------------------------- MODULE Spec2Model ----------------------------
(***************************************************************************)
(* Influence lines of a continuous beam: the single-span solver            *)
(* (isostatique / travee), the focal-ratio recursion (rapport_focau) and   *)
(* the multi-span solver (hyperstatique).                                  *)
(*                                                                         *)
(* Numbers.  The C++ code computes in double (and float) arithmetic.  The  *)
(* model computes the same expressions over the rationals, written         *)
(* <<n, d>> in lowest terms with d > 0, and extended with the three IEEE   *)
(* specials a division by zero produces: <<1, 0>> (+Inf), <<-1, 0>> (-Inf) *)
(* and <<0, 0>> (NaN).  Rounding and the sign of zero are not modelled: a  *)
(* quotient x / 0 takes the sign of x.                                     *)
(*                                                                         *)
(* Vectors.  A std::vector is a function on 0..size-1, so the model keeps  *)
(* the source's indices.  A std::unique_ptr is <<>> (nullptr) or <<v>>.    *)
(***************************************************************************)
EXTENDS Integers, Sequences, FiniteSets, TLC

VARIABLES args, self, pc, thrown

vars == <<args, self, pc, thrown>>

(***************************************************************************)
(* Bounds of the model.                                                    *)
(***************************************************************************)
MaxTravee == 3

MaxDivision == 2

MaxCoef == 2

MaxLongueur == 3

MaxDivisionIso == 4

(***************************************************************************)
(* Rational arithmetic with the IEEE specials.                             *)
(***************************************************************************)
Abs(n) == IF n < 0 THEN -n ELSE n

Sgn(n) == IF n < 0 THEN -1 ELSE IF n > 0 THEN 1 ELSE 0

RECURSIVE GCD(_, _)
GCD(m, n) == IF n = 0 THEN m ELSE GCD(n, m % n)

Norm(n, d) ==
    IF d = 0 THEN <<Sgn(n), 0>>
    ELSE LET g == GCD(Abs(n), Abs(d))
             s == IF d < 0 THEN -1 ELSE 1
         IN  <<(s * n) \div g, (s * d) \div g>>

R(n) == <<n, 1>>

Frac(n, d) == Norm(n, d)

NaN == <<0, 0>>

IsNaN(x) == x = NaN

IsFinite(x) == x[2] # 0

RNeg(x) == <<-x[1], x[2]>>

\* the sum, over the least common denominator
RAdd(x, y) ==
    IF x[2] = 0 /\ y[2] = 0
    THEN (IF x = y THEN x ELSE NaN)
    ELSE IF x[2] = 0 \/ y[2] = 0
    THEN Norm(x[1] * y[2] + y[1] * x[2], 0)
    ELSE LET g == GCD(x[2], y[2])
         IN  Norm(x[1] * (y[2] \div g) + y[1] * (x[2] \div g),
                  (x[2] \div g) * y[2])

RSub(x, y) == RAdd(x, RNeg(y))

\* the product, the common factors cancelled before the multiplication
RMul(x, y) ==
    IF x[2] = 0 \/ y[2] = 0 \/ x[1] = 0 \/ y[1] = 0
    THEN Norm(x[1] * y[1], x[2] * y[2])
    ELSE LET g == GCD(Abs(x[1]), y[2])
             k == GCD(Abs(y[1]), x[2])
         IN  Norm((x[1] \div g) * (y[1] \div k),
                  (x[2] \div k) * (y[2] \div g))

RInv(y) ==
    IF y[2] = 0 THEN (IF y[1] = 0 THEN NaN ELSE R(0))
    ELSE Norm(y[2], y[1])

RDiv(x, y) == RMul(x, RInv(y))

\* the comparison operators of double: every comparison with NaN is false
REq(x, y) == ~IsNaN(x) /\ ~IsNaN(y) /\ x = y

RLt(x, y) ==
    /\ ~IsNaN(x) /\ ~IsNaN(y)
    /\ IF x[2] = 0 /\ y[2] = 0 THEN x[1] < y[1]
       ELSE IF x[2] = 0 \/ y[2] = 0 THEN x[1] * y[2] < y[1] * x[2]
       ELSE LET g == GCD(x[2], y[2])
            IN  x[1] * (y[2] \div g) < y[1] * (x[2] \div g)

RLe(x, y) == RLt(x, y) \/ REq(x, y)

RGt(x, y) == RLt(y, x)

RGe(x, y) == RLe(y, x)

\* pow(x, k) of <cmath> for the integer exponents the code uses
RECURSIVE pow(_, _)
pow(x, k) == IF k = 0 THEN R(1) ELSE RMul(x, pow(x, k - 1))

(***************************************************************************)
(* std::vector and std::unique_ptr.                                        *)
(***************************************************************************)
Size(v) == Cardinality(DOMAIN v)

EmptyVec == << >>

\* a vector holds its elements: the function f with every element evaluated
Vector(f) == f @@ << >>

push_back(v, x) == v @@ (Size(v) :> x)

back(v) == v[Size(v) - 1]

front(v) == v[0]

\* vector::insert(end(), w.begin(), w.end())
insert_end(v, w) ==
    v @@ [k \in Size(v)..(Size(v) + Size(w) - 1) |-> w[k - Size(v)]]

\* the vector holding the n copies of x that vector::resize(n, x) leaves
Fill(n, x) == [k \in 0..(n - 1) |-> x]

\* a vector given by its elements in order
VecOf(s) == [k \in 0..(Len(s) - 1) |-> s[k + 1]]

nullptr == << >>

Ptr(v) == <<v>>

Deref(p) == p[1]

\* the product and the sum of the numbers of s, taken from left to right
RECURSIVE RProdFrom(_, _)
RProdFrom(s, k) ==
    IF k = 1 THEN s[1] ELSE RMul(RProdFrom(s, k - 1), s[k])

RProd(s) == RProdFrom(s, Len(s))

RECURSIVE RSumFrom(_, _)
RSumFrom(s, k) ==
    IF k = 1 THEN s[1] ELSE RAdd(RSumFrom(s, k - 1), s[k])

RSum(s) == RSumFrom(s, Len(s))

(***************************************************************************)
(* hyperstatique::sous_to_one: the vectors of liste, one after the other.  *)
(***************************************************************************)
RECURSIVE sous_to_one_from(_, _)
sous_to_one_from(liste, k) ==
    IF k >= Size(liste) THEN EmptyVec
    ELSE insert_end(liste[k], sous_to_one_from(liste, k + 1))

sous_to_one(liste) == sous_to_one_from(liste, 0)

\* a range-for whose body only pushes: pushed[k] is what iteration k pushes
ForEachPush(pushed) == sous_to_one(pushed)

One(x) == [k \in 0..0 |-> x]

(***************************************************************************)
(* isostatique: one simply supported span.  An object is a record of the   *)
(* private members E, I, I_varer, pos_I_varier, L, division.               *)
(***************************************************************************)
\* a member the constructor leaves uninitialised; the model never reads it
Uninitialised == NaN

\* isostatique::alpha
alpha(iso) ==
    LET n == IF iso.division > 0 THEN iso.division ELSE 0
    IN  [i \in 0..n |->
            IF i < n THEN RMul(RDiv(iso.L, R(iso.division)), R(i))
            ELSE iso.L]

\* the first segment j of the table with pos[j] <= x <= pos[j+1], or -1:
\* the scan "for j < size-1: if (x >= pos[j] && x <= pos[j+1]) {...; break;}"
FirstSegment(pos, x) ==
    LET S == {j \in 0..(Size(pos) - 2) : RGe(x, pos[j]) /\ RLe(x, pos[j + 1])}
    IN  IF S = {} THEN -1 ELSE CHOOSE j \in S : \A k \in S : j <= k

\* T with a single sample at x == sigma, the one of the branch x > sigma
T_both_one_sample(iso, sigma) ==
    LET L == iso.L
        TBody(i) ==
            IF RLt(i, sigma) THEN One(RDiv(RNeg(i), L))
            ELSE One(RSub(R(1), RDiv(i, L)))
    IN  [T |-> ForEachPush([k \in DOMAIN alpha(iso) |->
                               TBody(alpha(iso)[k])]),
         coordonne |-> alpha(iso)]

\* isostatique::T, both returned vectors
T_both(iso, sigma) ==
    LET L == iso.L
        TBody(i) ==
            IF RLt(i, sigma) THEN One(RDiv(RNeg(i), L))
            ELSE IF RGt(i, sigma) THEN One(RSub(R(1), RDiv(i, L)))
            ELSE IF REq(i, sigma)
                 THEN push_back(One(RDiv(RNeg(i), L)), RSub(R(1), RDiv(i, L)))
                 ELSE EmptyVec
        CBody(i) ==
            IF RLt(i, sigma) THEN One(i)
            ELSE IF RGt(i, sigma) THEN One(i)
            ELSE IF REq(i, sigma) THEN push_back(One(i), i)
                 ELSE EmptyVec
    IN  IF RLe(sigma, L)
        THEN [T |-> ForEachPush([k \in DOMAIN alpha(iso) |->
                                    TBody(alpha(iso)[k])]),
              coordonne |-> ForEachPush([k \in DOMAIN alpha(iso) |->
                                            CBody(alpha(iso)[k])])]
        ELSE [T |-> Fill(iso.division, R(0)), coordonne |-> alpha(iso)]

T(iso, sigma, abscisse) ==
    IF abscisse THEN T_both(iso, sigma).coordonne ELSE T_both(iso, sigma).T

\* M with the branch x > sigma taken at every x
M_one_branch(iso, sigma) ==
    ForEachPush([k \in DOMAIN alpha(iso) |->
                    One(RMul(sigma, RSub(R(1), RDiv(alpha(iso)[k], iso.L))))])

\* isostatique::M
M(iso, sigma) ==
    LET L == iso.L
        Body(i) ==
            IF RLe(i, sigma) THEN One(RMul(i, RSub(R(1), RDiv(sigma, L))))
            ELSE IF RGt(i, sigma) THEN One(RMul(sigma, RSub(R(1), RDiv(i, L))))
            ELSE EmptyVec
    IN  IF RLe(sigma, L) THEN ForEachPush([k \in DOMAIN alpha(iso) |->
                                              Body(alpha(iso)[k])])
        ELSE Fill(iso.division, R(0))

\* fonct_omega_prime and fonct_omega_secon
fonct_omega_prime(al, I, L, E) ==
    RProd(<<RDiv(RNeg(L), RProd(<<R(6), E, I>>)), al,
            RSub(R(1), RDiv(al, L)), RSub(R(2), RDiv(al, L))>>)

fonct_omega_secon(al, I, L, E) ==
    RProd(<<RDiv(L, RProd(<<R(6), E, I>>)), al,
            RSub(R(1), RDiv(RMul(al, al), RMul(L, L)))>>)

\* isostatique::omega_prime
omega_prime(iso) ==
    LET L == iso.L
        E == iso.E
        Const(i) ==
            One(RDiv(RProd(<<RNeg(i), RSub(L, i), RSub(RMul(R(2), L), i)>>),
                     RProd(<<R(6), E, iso.I, L>>)))
        Var(i) ==
            LET j == FirstSegment(iso.pos_I_varier, i)
            IN  IF j = -1 THEN EmptyVec
                ELSE One(fonct_omega_prime(i, iso.I_varer[j], L, E))
    IN  IF Size(iso.I_varer) = 0 THEN ForEachPush([k \in DOMAIN alpha(iso) |->
                                                      Const(alpha(iso)[k])])
        ELSE ForEachPush([k \in DOMAIN alpha(iso) |-> Var(alpha(iso)[k])])

\* isostatique::omega_second
omega_second(iso) ==
    LET L == iso.L
        E == iso.E
        Const(i) ==
            One(RDiv(RProd(<<i, RSub(L, i), RAdd(L, i)>>),
                     RProd(<<R(6), E, iso.I, L>>)))
        Var(i) ==
            LET j == FirstSegment(iso.pos_I_varier, i)
            IN  IF j = -1 THEN EmptyVec
                ELSE One(fonct_omega_secon(i, iso.I_varer[j], L, E))
    IN  IF Size(iso.I_varer) = 0 THEN ForEachPush([k \in DOMAIN alpha(iso) |->
                                                      Const(alpha(iso)[k])])
        ELSE ForEachPush([k \in DOMAIN alpha(iso) |-> Var(alpha(iso)[k])])

\* the two branches of the rotation under a unit load at sigma, observed at i
ohm_left(i, sigma, L, E, I) ==
    RDiv(RMul(RSub(RMul(RSub(L, i), RAdd(L, i)),
                   RMul(R(3), pow(RSub(L, sigma), 2))), i),
         RProd(<<R(6), E, I, L>>))

ohm_right(i, sigma, L, E, I) ==
    RDiv(RMul(RNeg(RSub(RMul(i, RSub(RMul(R(2), L), i)),
                        RMul(R(3), pow(sigma, 2)))),
              RSub(L, i)),
         RProd(<<R(6), E, I, L>>))

\* the two branches of the deflection under a unit load at sigma, observed at i
F_left(i, sigma, L, E, I) ==
    RMul(RNeg(RDiv(RMul(i, RSub(L, sigma)), RProd(<<R(6), E, I, L>>))),
         RSub(RMul(sigma, RSub(RMul(R(2), L), sigma)), pow(i, 2)))

F_right(i, sigma, L, E, I) ==
    RMul(RNeg(RDiv(RMul(sigma, RSub(L, i)), RProd(<<R(6), E, I, L>>))),
         RSub(RMul(i, RSub(RMul(R(2), L), i)), pow(sigma, 2)))

\* fonct_OMEGA (variable inertia)
fonct_OMEGA(sigma, L, E, al, pos_I_varier, I_varer) ==
    LET Body(i) ==
            LET j == FirstSegment(pos_I_varier, i)
            IN  IF RLe(i, sigma)
                THEN One(IF j = -1 THEN R(0)
                         ELSE ohm_left(i, sigma, L, E, I_varer[j]))
                ELSE IF RGt(i, sigma)
                THEN One(IF j = -1 THEN R(0)
                         ELSE ohm_right(i, sigma, L, E, I_varer[j]))
                ELSE One(R(0))
    IN  IF RLe(sigma, L) THEN ForEachPush([k \in DOMAIN al |-> Body(al[k])])
        ELSE Fill(Size(al), R(0))

\* fonct_V (variable inertia)
fonct_V(sigma, L, E, al, pos_I_varier, I_varer) ==
    LET Body(i) ==
            LET j == FirstSegment(pos_I_varier, i)
            IN  IF RLe(i, sigma)
                THEN One(IF j = -1 THEN R(0)
                         ELSE F_left(i, sigma, L, E, I_varer[j]))
                ELSE One(IF j = -1 THEN R(0)
                         ELSE F_right(i, sigma, L, E, I_varer[j]))
    IN  IF RLe(sigma, L) THEN ForEachPush([k \in DOMAIN al |-> Body(al[k])])
        ELSE Fill(Size(al), R(0))

\* isostatique::OMEGA
OMEGA(iso, sigma) ==
    LET L == iso.L
        Body(i) ==
            IF RLe(i, sigma) THEN One(ohm_left(i, sigma, L, iso.E, iso.I))
            ELSE IF RGt(i, sigma) THEN One(ohm_right(i, sigma, L, iso.E, iso.I))
            ELSE One(R(0))
    IN  IF Size(iso.I_varer) = 0
        THEN (IF RLe(sigma, L) THEN ForEachPush([k \in DOMAIN alpha(iso) |->
                                                    Body(alpha(iso)[k])])
              ELSE Fill(Size(alpha(iso)), R(0)))
        ELSE fonct_OMEGA(sigma, L, iso.E, alpha(iso), iso.pos_I_varier,
                         iso.I_varer)

\* isostatique::V
V(iso, sigma) ==
    LET L == iso.L
        Body(i) ==
            IF RLe(i, sigma) THEN One(F_left(i, sigma, L, iso.E, iso.I))
            ELSE One(F_right(i, sigma, L, iso.E, iso.I))
    IN  IF Size(iso.I_varer) = 0
        THEN (IF RLe(sigma, L) THEN ForEachPush([k \in DOMAIN alpha(iso) |->
                                                    Body(alpha(iso)[k])])
              ELSE Fill(Size(alpha(iso)), R(0)))
        ELSE fonct_V(sigma, L, iso.E, alpha(iso), iso.pos_I_varier,
                     iso.I_varer)

\* isostatique::effort_tranchant, abscisse_effort_tranchant,
\* moment_flechissant, rotation, fleche: one row per position of the grid
effort_tranchant(iso) ==
    [s \in DOMAIN alpha(iso) |-> T(iso, alpha(iso)[s], FALSE)]

abscisse_effort_tranchant(iso) ==
    [s \in DOMAIN alpha(iso) |-> T(iso, alpha(iso)[s], TRUE)]

moment_flechissant(iso) ==
    [s \in DOMAIN alpha(iso) |-> M(iso, alpha(iso)[s])]

rotation(iso) ==
    [s \in DOMAIN alpha(iso) |-> OMEGA(iso, alpha(iso)[s])]

fleche(iso) ==
    [s \in DOMAIN alpha(iso) |-> V(iso, alpha(iso)[s])]

(***************************************************************************)
(* Exceptions.  A constructor yields [ok |-> TRUE, obj |-> the object] or  *)
(* [ok |-> FALSE, what |-> the message of the std::invalid_argument].      *)
(***************************************************************************)
Built(o) == [ok |-> TRUE, obj |-> o]

Throw(msg) == [ok |-> FALSE, what |-> msg]

\* operator != of double
RNe(x, y) == ~REq(x, y)

\* isostatique::isostatique (constant inertia)
isostatique_const(longueur, Young_module, Inertia, nb_division) ==
    LET o == [E |-> Young_module, I |-> Inertia, I_varer |-> EmptyVec,
              pos_I_varier |-> EmptyVec, L |-> longueur,
              division |-> nb_division]
    IN  Built(o @@ [abscisse |-> Ptr(alpha(o))])

\* isostatique::isostatique (variable inertia)
isostatique_var(longueur, Young_module, Inertia_vaier, position_Inertia, nb_division) ==
    LET single == Size(Inertia_vaier) = 1
        I_varer == IF single
                   THEN VecOf(<<Inertia_vaier[0], Inertia_vaier[0]>>)
                   ELSE Inertia_vaier
        pos_I_varier == IF single THEN VecOf(<<R(0), longueur>>)
                        ELSE position_Inertia
        o == [E |-> Young_module, I |-> Uninitialised, I_varer |-> I_varer,
              pos_I_varier |-> pos_I_varier, L |-> longueur,
              division |-> nb_division]
    IN  IF Size(I_varer) # Size(pos_I_varier)
        THEN Throw("La taille de I_varier doit etre egale a la taille de pos_I_varier")
        ELSE IF RNe(back(pos_I_varier), longueur)
        THEN Throw("La derniere position doit etre egale a la longueur de la travee")
        ELSE Built(o @@ [abscisse |-> Ptr(alpha(o))])

(***************************************************************************)
(* travee: an isostatique (field iso) with its own copies Young, longueur, *)
(* Inertie, pos_I_varier, I_varer of the constructor's arguments.          *)
(***************************************************************************)
\* travee::travee (constant inertia)
travee_const(L, E, I, nb_division) ==
    Built([iso |-> isostatique_const(L, E, I, nb_division).obj,
           Young |-> E, longueur |-> L, Inertie |-> I,
           pos_I_varier |-> EmptyVec, I_varer |-> EmptyVec])

\* travee::travee (variable inertia): the base constructor, then the checks
\* of the constructor's body in the order of the code
travee_var(L, E, I, pos_I_varier, nb_division) ==
    LET base == isostatique_var(L, E, I, pos_I_varier, nb_division)
        n == Size(pos_I_varier)
        Bad == {i \in 0..(n - 1) :
                   RGt(pos_I_varier[i], L) \/ RLt(pos_I_varier[i], R(0))}
        first == CHOOSE i \in Bad : \A k \in Bad : i <= k
    IN  IF ~base.ok THEN base
        ELSE IF Bad # {}
        THEN (IF RGt(pos_I_varier[first], L)
              THEN Throw("La position d'inertie variable est superieure a la longueur de la travee")
              ELSE Throw("La position d'inertie variable est negative"))
        ELSE IF n # Size(I)
        THEN Throw("Le nombre de positions d'inertie variable doit etre egal au nombre de valeurs d'inertie")
        ELSE IF \E i \in 0..(n - 2) : RGe(pos_I_varier[i], pos_I_varier[i + 1])
        THEN Throw("Les positions d'inertie variable doivent etre strictement croissantes")
        ELSE Built([iso |-> base.obj, Young |-> E, longueur |-> L,
                    Inertie |-> Uninitialised,
                    pos_I_varier |-> pos_I_varier, I_varer |-> I])

\* "x = 0; for (i < n) x += terms[i];"
RECURSIVE Accumulate(_, _)
Accumulate(terms, n) ==
    IF n = 0 THEN R(0) ELSE RAdd(Accumulate(terms, n - 1), terms[n - 1])

\* travee::a
a(t) ==
    IF Size(t.I_varer) = 0
    THEN RDiv(t.longueur, RProd(<<R(3), t.Young, t.Inertie>>))
    ELSE LET b_ == RDiv(RNeg(t.longueur), RMul(R(3), t.Young))
             pos == t.pos_I_varier
             terms == [i \in 0..(Size(pos) - 2) |->
                 RMul(RDiv(R(1), t.I_varer[i]),
                      RSub(pow(RSub(R(1), RDiv(pos[i + 1], t.longueur)), 3),
                           pow(RSub(R(1), RDiv(pos[i], t.longueur)), 3)))]
         IN  RMul(Accumulate(terms, Size(terms)), b_)

\* the static function B of travee.cpp
B(x, l) == RSub(RDiv(pow(x, 2), RMul(R(2), l)),
                RDiv(pow(x, 3), RMul(R(3), pow(l, 2))))

\* the coefficient b taken equal to the coefficient a
b_as_a(t) == a(t)

\* travee::b
b(t) ==
    IF Size(t.I_varer) = 0
    THEN RDiv(t.longueur, RProd(<<R(6), t.Young, t.Inertie>>))
    ELSE LET a_ == RDiv(R(1), t.Young)
             pos == t.pos_I_varier
             terms == [i \in 0..(Size(pos) - 2) |->
                 RMul(RDiv(R(1), t.I_varer[i]),
                      RSub(B(pos[i + 1], t.longueur), B(pos[i], t.longueur)))]
         IN  RMul(Accumulate(terms, Size(terms)), a_)

\* travee::c
c(t) ==
    IF Size(t.I_varer) = 0
    THEN RDiv(t.longueur, RProd(<<R(3), t.Young, t.Inertie>>))
    ELSE LET a_ == RDiv(R(1), RMul(t.Young, pow(t.longueur, 2)))
             pos == t.pos_I_varier
             terms == [i \in 0..(Size(pos) - 2) |->
                 RMul(RDiv(R(1), t.I_varer[i]),
                      RSub(pow(pos[i + 1], 3), pow(pos[i], 3)))]
         IN  RMul(Accumulate(terms, Size(terms)), a_)

(***************************************************************************)
(* rapport_focau: the focal ratios of the coefficient vectors a, b, c.     *)
(***************************************************************************)
\* rapport_focau::rapport_focau
rapport_focau(liste_a, liste_b, liste_c, nombre_travee) ==
    [a |-> liste_a, b |-> liste_b, c |-> liste_c, nb_travee |-> nombre_travee]

\* phy_premier with the coefficient c of the span itself, not of the span
\* before it
RECURSIVE phy_premier_c_of_span(_, _)
phy_premier_c_of_span(rf, i) ==
    IF i = 0 THEN R(0)
    ELSE RDiv(rf.b[i],
              RSub(RAdd(rf.a[i], rf.c[i]),
                   RMul(rf.b[i - 1], phy_premier_c_of_span(rf, i - 1))))

\* the value of phy_premier that iteration i of rapport_focau::phy pushes
RECURSIVE phy_premier(_, _)
phy_premier(rf, i) ==
    IF i = 0 THEN R(0)
    ELSE RDiv(rf.b[i],
              RSub(RAdd(rf.a[i], rf.c[i - 1]),
                   RMul(rf.b[i - 1], phy_premier(rf, i - 1))))

\* rapport_focau::phy
phy(rf) == [i \in 0..(rf.nb_travee - 1) |-> phy_premier(rf, i)]

\* phy_prime_premier started at 1, not at 0, on the last span
RECURSIVE phy_prime_premier_from_one(_, _)
phy_prime_premier_from_one(rf, i) ==
    IF i = rf.nb_travee THEN R(1)
    ELSE RDiv(rf.b[i - 1],
              RSub(RAdd(rf.c[i - 1], rf.a[i]),
                   RMul(rf.b[i], phy_prime_premier_from_one(rf, i + 1))))

\* the value of phy_prime_premier that the iteration with counter i of
\* rapport_focau::phy_prime pushes (i runs from nb_travee down to 1)
RECURSIVE phy_prime_premier(_, _)
phy_prime_premier(rf, i) ==
    IF i = rf.nb_travee THEN R(0)
    ELSE RDiv(rf.b[i - 1],
              RSub(RAdd(rf.c[i - 1], rf.a[i]),
                   RMul(rf.b[i], phy_prime_premier(rf, i + 1))))

\* phy_prime without the copy back to front
phy_prime_not_reversed(rf) ==
    [k \in 0..(rf.nb_travee - 1) |-> phy_prime_premier(rf, rf.nb_travee - k)]

\* rapport_focau::phy_prime: liste_phy_prime in the order of computation,
\* then copied back to front
phy_prime(rf) ==
    LET n == rf.nb_travee
        liste_phy_prime == [k \in 0..(n - 1) |-> phy_prime_premier(rf, n - k)]
    IN  [m \in 0..(n - 1) |-> liste_phy_prime[n - 1 - m]]

(***************************************************************************)
(* hyperstatique: the multi-span solver.  An object h is the record of its *)
(* members; every pointer member is nullptr or Ptr(value).                 *)
(***************************************************************************)
\* interpolate with the two end moments exchanged
interpolate_exchanged(m, n, x, l) ==
    RAdd(RMul(n, RSub(R(1), RDiv(x, l))), RDiv(RMul(m, x), l))

\* the static functions at the head of hyperstatique.cpp
interpolate(m, n, x, l) ==
    RAdd(RMul(m, RSub(R(1), RDiv(x, l))), RDiv(RMul(n, x), l))

calcul_rotation(m, n, x, l, E, I) ==
    RSub(RDiv(RMul(RNeg(m),
                   RAdd(RSub(RMul(R(2), RMul(l, l)), RProd(<<R(6), l, x>>)),
                        RMul(R(3), RMul(x, x)))),
              RProd(<<R(6), E, I, l>>)),
         RDiv(RMul(n, RSub(RMul(l, l), RMul(R(3), RMul(x, x)))),
              RProd(<<R(6), E, I, l>>)))

calcul_fleche(m, n, x, l, E, I) ==
    RSub(RDiv(RProd(<<RNeg(m), x, RSub(l, x), RSub(RMul(R(2), l), x)>>),
              RProd(<<R(6), E, I, l>>)),
         RDiv(RProd(<<n, x, RSub(l, x), RAdd(l, x)>>),
              RProd(<<R(6), E, I, l>>)))

\* the slope taken with the left support moment not negated
interpolate_effort_tranchant_sum(m, n, l) == RDiv(RAdd(m, n), l)

\* hyperstatique::interpolate_effort_tranchant
interpolate_effort_tranchant(m, n, l) == RDiv(RAdd(RNeg(m), n), l)

\* the members as the constructors' initialiser lists leave them
Members(L, E, I_tr_, I_var_, pos_, nb_division) ==
    [L_tr |-> Ptr(L), E_tr |-> Ptr(E), I_tr |-> I_tr_,
     division |-> nb_division, nombre_travee |-> Size(L),
     I_var |-> I_var_, pos_I_var |-> pos_,
     cached_moment_gauche |-> nullptr, cached_moment_droite |-> nullptr,
     rap_cache |-> nullptr, iso_cache |-> nullptr,
     phy |-> nullptr, phy_prime |-> nullptr, GAUCHE_DROITE |-> nullptr,
     Mu_iso_total |-> nullptr, W_iso_total |-> nullptr,
     V_iso_total |-> nullptr, T_iso_total |-> nullptr,
     abscisse_T_iso_total |-> nullptr, abscisse_total |-> nullptr,
     alpha |-> nullptr, Courbe_Moment_appuis |-> nullptr,
     Courbe_R_appuis |-> nullptr, Courbe_moment_en_travee |-> nullptr,
     Courbe_rotation_en_travee |-> nullptr,
     Courbe_fleche_en_travee |-> nullptr,
     Courbe_effort_tranchant_en_travee |-> nullptr,
     Abscisse_Courbe_effort_tranchant_en_travee |-> nullptr]

\* hyperstatique::hyperstatique (constant inertia): the initialiser list
hyperstatique_const_members(tous_longueur_travee, tous_young_module, tous_Inertie, nb_division) ==
    Members(tous_longueur_travee, tous_young_module, Ptr(tous_Inertie),
            nullptr, nullptr, nb_division)

\* the body of the constructor without the test of the counts
hyperstatique_const_counts_unchecked(h, tous_longueur_travee, tous_young_module, tous_Inertie, nb_division) ==
    LET n == h.nombre_travee
    IN  IF \/ Size(tous_longueur_travee) # n
           \/ Size(tous_young_module) # n
           \/ Size(tous_Inertie) # n
        THEN [ok |-> FALSE, obj |-> h,
              what |-> "Dimensions incoherentes: tous les vecteurs d'entree doivent avoir la meme taille"]
        ELSE [ok |-> TRUE, obj |-> h, what |-> ""]

\* hyperstatique::hyperstatique (constant inertia): the body, up to the call
\* of initialiser_donnees, run on the object h of the initialiser list
hyperstatique_const(h, tous_longueur_travee, tous_young_module, tous_Inertie, nb_division) ==
    LET n == h.nombre_travee
    IN  IF \/ Size(tous_longueur_travee) # n
           \/ Size(tous_young_module) # n
           \/ Size(tous_Inertie) # n
        THEN [ok |-> FALSE, obj |-> h,
              what |-> "Dimensions incoherentes: tous les vecteurs d'entree doivent avoir la meme taille"]
        ELSE IF n <= 0 \/ nb_division <= 0
        THEN [ok |-> FALSE, obj |-> h,
              what |-> "Le nombre de travees et de divisions doit etre positif"]
        ELSE [ok |-> TRUE, obj |-> h, what |-> ""]

\* hyperstatique::hyperstatique (variable inertia): the initialiser list
hyperstatique_var_members(tous_longueur_travee, tous_young_module, tous_Inertie, tous_x_coords, nb_division) ==
    Members(tous_longueur_travee, tous_young_module, Ptr(EmptyVec),
            Ptr(tous_Inertie), Ptr(tous_x_coords), nb_division)

\* hyperstatique::hyperstatique (variable inertia): the body, up to the call
\* of initialiser_donnees, run on the object h of the initialiser list
hyperstatique_var(h, tous_longueur_travee, tous_young_module, tous_Inertie, tous_x_coords, nb_division) ==
    LET n == h.nombre_travee
        \* a table of one inertia value becomes {a, a} over {0, L}
        I_var_ == [i \in DOMAIN tous_Inertie |->
                      IF Size(tous_Inertie[i]) = 1
                      THEN VecOf(<<Deref(h.I_var)[i][0], Deref(h.I_var)[i][0]>>)
                      ELSE Deref(h.I_var)[i]]
        pos_ == [i \in DOMAIN tous_Inertie |->
                      IF Size(tous_Inertie[i]) = 1
                      THEN VecOf(<<R(0), Deref(h.L_tr)[i]>>)
                      ELSE Deref(h.pos_I_var)[i]]
        normalised == [h EXCEPT !.I_var = Ptr(I_var_), !.pos_I_var = Ptr(pos_)]
    IN  IF \/ Size(tous_longueur_travee) # n
           \/ Size(tous_young_module) # n
           \/ Size(tous_Inertie) # n
           \/ Size(tous_x_coords) # n
        THEN [ok |-> FALSE, obj |-> h,
              what |-> "Dimensions incoherentes: tous les vecteurs d'entree doivent avoir la meme taille"]
        ELSE IF n <= 0 \/ nb_division <= 0
        THEN [ok |-> FALSE, obj |-> normalised,
              what |-> "Le nombre de travees et de divisions doit etre positif"]
        ELSE [ok |-> TRUE, obj |-> normalised, what |-> ""]

\* the travee that iteration i of the loop of mise_en_place constructs
emplace_back(h, i) ==
    IF h.I_var # nullptr /\ h.pos_I_var # nullptr
    THEN travee_var(Deref(h.L_tr)[i], Deref(h.E_tr)[i], Deref(h.I_var)[i],
                    Deref(h.pos_I_var)[i], h.division)
    ELSE travee_const(Deref(h.L_tr)[i], Deref(h.E_tr)[i], Deref(h.I_tr)[i],
                      h.division)

\* hyperstatique::mise_en_place: the object with iso_cache populated; when a
\* travee constructor throws, iso_cache holds the spans built before it
mise_en_place(h) ==
    IF h.iso_cache # nullptr THEN [ok |-> TRUE, obj |-> h, what |-> ""]
    ELSE LET n == h.nombre_travee
             r == [i \in 0..(n - 1) |-> emplace_back(h, i)]
             Failing == {i \in 0..(n - 1) : ~r[i].ok}
             f == IF Failing = {} THEN n
                  ELSE CHOOSE i \in Failing : \A k \in Failing : i <= k
             cache == [i \in 0..(f - 1) |-> r[i].obj]
         IN  [ok |-> f = n,
              obj |-> [h EXCEPT !.iso_cache = Ptr(cache)],
              what |-> IF f = n THEN "" ELSE r[f].what]

\* the spans of a solver whose iso_cache is populated
iso(h) == Deref(h.iso_cache)

\* hyperstatique::abscisse
abscisse(h) == [i \in DOMAIN iso(h) |-> Deref(iso(h)[i].iso.abscisse)]

\* what abscisse() leaves of iso_cache: it moves every span's grid out
moved_from(h) ==
    [i \in DOMAIN iso(h) |->
        [iso(h)[i] EXCEPT !.iso.abscisse = Ptr(EmptyVec)]]

\* hyperstatique::abscisse_des_point
abscisse_des_point(h, liste) ==
    sous_to_one([i \in DOMAIN liste |->
        LET a_ == Accumulate(Deref(h.L_tr), i)
        IN  [k \in DOMAIN liste[i] |-> RAdd(liste[i][k], a_)]])

\* hyperstatique::Mu_total, W_total, V_total, T_total, abscisse_T_total
Mu_total(h) == [i \in DOMAIN iso(h) |-> moment_flechissant(iso(h)[i].iso)]

W_total(h) == [i \in DOMAIN iso(h) |-> rotation(iso(h)[i].iso)]

V_total(h) == [i \in DOMAIN iso(h) |-> fleche(iso(h)[i].iso)]

T_total(h) == [i \in DOMAIN iso(h) |-> effort_tranchant(iso(h)[i].iso)]

abscisse_T_total(h) ==
    [i \in DOMAIN iso(h) |-> abscisse_effort_tranchant(iso(h)[i].iso)]

\* prod_list without its first factor liste[debut]
RECURSIVE prod_list_without_first(_, _, _)
prod_list_without_first(liste, debut, fin) ==
    IF fin <= debut THEN R(1)
    ELSE RMul(prod_list_without_first(liste, debut, fin - 1), liste[fin])

\* hyperstatique::prod_list
RECURSIVE prod_list(_, _, _)
prod_list(liste, debut, fin) ==
    IF fin < debut THEN R(1)
    ELSE RMul(prod_list(liste, debut, fin - 1), liste[fin])

\* hyperstatique::a_tr, b_tr, c_tr, omega_prime_tr, omega_second_tr
a_tr(h) == Vector([i \in DOMAIN iso(h) |-> a(iso(h)[i])])

b_tr(h) == Vector([i \in DOMAIN iso(h) |-> b(iso(h)[i])])

c_tr(h) == Vector([i \in DOMAIN iso(h) |-> c(iso(h)[i])])

omega_prime_tr(h) ==
    Vector([i \in DOMAIN iso(h) |-> omega_prime(iso(h)[i].iso)])

omega_second_tr(h) ==
    Vector([i \in DOMAIN iso(h) |-> omega_second(iso(h)[i].iso)])

\* the row M_appuit that moment_au_appuit_travee_charger_gauche computes
moment_gauche_calcul(h) ==
    LET omega_primes == omega_prime_tr(h)
        omega_seconds == omega_second_tr(h)
        b_vals == b_tr(h)
    IN  Vector([i \in 0..(h.nombre_travee - 1) |->
            Vector([j \in 0..h.division |->
                LET Om_prime == omega_primes[i][j]
                    Om_second == omega_seconds[i][j]
                    phyVal == Deref(h.phy)[i]
                    phyPrimeVal == Deref(h.phy_prime)[i]
                IN  RMul(RDiv(phyVal, b_vals[i]),
                         RDiv(RAdd(Om_prime, RMul(Om_second, phyPrimeVal)),
                              RSub(R(1), RMul(phyVal, phyPrimeVal))))])])

\* hyperstatique::moment_au_appuit_travee_charger_gauche
moment_au_appuit_travee_charger_gauche(h) ==
    IF h.cached_moment_gauche # nullptr THEN Deref(h.cached_moment_gauche)
    ELSE moment_gauche_calcul(h)

\* the row M_appuit that moment_au_appuit_travee_charger_droite computes
moment_droite_calcul(h) ==
    LET omega_primes == omega_prime_tr(h)
        omega_seconds == omega_second_tr(h)
        b_vals == b_tr(h)
    IN  Vector([i \in 0..(h.nombre_travee - 1) |->
            Vector([j \in 0..h.division |->
                LET Om_prime == omega_primes[i][j]
                    Om_second == omega_seconds[i][j]
                    phyVal == Deref(h.phy)[i]
                    phyPrimeVal == Deref(h.phy_prime)[i]
                IN  RMul(RNeg(RDiv(phyPrimeVal, b_vals[i])),
                         RDiv(RAdd(RMul(Om_prime, phyVal), Om_second),
                              RSub(R(1), RMul(phyVal, phyPrimeVal))))])])

\* hyperstatique::moment_au_appuit_travee_charger_droite
moment_au_appuit_travee_charger_droite(h) ==
    IF h.cached_moment_droite # nullptr THEN Deref(h.cached_moment_droite)
    ELSE moment_droite_calcul(h)

\* pow(-1, k) for an integer k of either sign
pow_minus_one(k) == IF k % 2 = 0 THEN R(1) ELSE R(-1)

\* the moments to the left with the focal ratios taken one span too far
\* to the right
m_appuis_gauche_shifted(h, moment_gauche, index_travee) ==
    [i \in 0..index_travee |->
        LET p == prod_list(Deref(h.phy), i + 1, index_travee)
        IN  Vector([j \in DOMAIN moment_gauche[index_travee] |->
                RMul(RMul(pow_minus_one(index_travee - i), p),
                     moment_gauche[index_travee][j])])]

\* hyperstatique::m_appuis_gauche
m_appuis_gauche(h, moment_gauche, index_travee) ==
    [i \in 0..index_travee |->
        LET p == prod_list(Deref(h.phy), i, index_travee - 1)
        IN  Vector([j \in DOMAIN moment_gauche[index_travee] |->
                RMul(RMul(pow_minus_one(index_travee - i), p),
                     moment_gauche[index_travee][j])])]

\* hyperstatique::m_appuis_droite
m_appuis_droite(h, moment_droite, index_travee) ==
    [r \in 0..(h.nombre_travee - index_travee - 1) |->
        LET g == index_travee + r
            p == prod_list(Deref(h.phy_prime), index_travee + 1, g)
        IN  Vector([j \in DOMAIN moment_droite[index_travee] |->
                RMul(RMul(pow_minus_one(index_travee - g), p),
                     moment_droite[index_travee][j])])]

\* hyperstatique::tr_m_appuis_gauche, tr_m_appuis_droite
tr_m_appuis_gauche(h) ==
    LET moment_gauche == moment_au_appuit_travee_charger_gauche(h)
    IN  [index_travee \in 0..(h.nombre_travee - 1) |->
            m_appuis_gauche(h, moment_gauche, index_travee)]

tr_m_appuis_droite(h) ==
    LET moment_droite == moment_au_appuit_travee_charger_droite(h)
    IN  [index_travee \in 0..(h.nombre_travee - 1) |->
            m_appuis_droite(h, moment_droite, index_travee)]

\* hyperstatique::tr_G_D
tr_G_D(h) ==
    LET gauche == tr_m_appuis_gauche(h)
        droite == tr_m_appuis_droite(h)
    IN  [i \in 0..(h.nombre_travee - 1) |-> insert_end(gauche[i], droite[i])]

\* hyperstatique::courbe_M_appuit
courbe_M_appuit(h) ==
    [j \in 0..h.nombre_travee |->
        sous_to_one([i \in 0..(h.nombre_travee - 1) |->
                        Deref(h.GAUCHE_DROITE)[i][j]])]

\* sum_vect of utile.cpp
sum_vect(A, B_, plus) ==
    [k \in DOMAIN A |-> IF plus THEN RAdd(A[k], B_[k]) ELSE RSub(A[k], B_[k])]

\* hyperstatique::courbe_R_appuit
courbe_R_appuit(h) ==
    LET V_ == Deref(h.Courbe_effort_tranchant_en_travee)
    IN  [i \in 0..(h.nombre_travee - 1) |->
            sum_vect(back(V_[i]), front(V_[i]), FALSE)]

\* the task of hyperstatique::M_flechissant for span index_travee
M_flechissant_task(h, index_travee) ==
    LET travee_length == Deref(h.L_tr)[index_travee]
        GD == Deref(h.GAUCHE_DROITE)
        al == Deref(h.alpha)[index_travee]
    IN  [conteur_de_section \in DOMAIN al |->
            LET section == al[conteur_de_section]
                Mut == Deref(h.Mu_iso_total)[index_travee][conteur_de_section]
            IN  sous_to_one([i \in 0..(h.nombre_travee - 1) |->
                    [j \in 0..h.division |->
                        LET moment_interpolation ==
                                interpolate(GD[i][index_travee][j],
                                            GD[i][index_travee + 1][j],
                                            section, travee_length)
                        IN  IF index_travee = i
                            THEN RAdd(Mut[j], moment_interpolation)
                            ELSE moment_interpolation]])]

\* hyperstatique::M_flechissant: one task per span, joined in span order
M_flechissant(h) ==
    [index_travee \in 0..(h.nombre_travee - 1) |->
        M_flechissant_task(h, index_travee)]

(***************************************************************************)
(* The local variable travee_I of the tasks of W_rotaion and V_fleche.  It *)
(* starts at I_tr[index_travee], or at 0.0 when I_tr is empty (variable    *)
(* inertia), and is then only assigned by the scan of span index_travee's  *)
(* table, which has no break: the last segment holding alpha[j] wins, and  *)
(* the variable keeps its value when no segment holds it.                  *)
(***************************************************************************)
scan_travee_I(h, index_travee, j, travee_I) ==
    LET pos == Deref(h.pos_I_var)[index_travee]
        x == Deref(h.alpha)[index_travee][j]
        S == {k \in 0..(Size(pos) - 2) : RLe(pos[k], x) /\ RLe(x, pos[k + 1])}
    IN  IF S = {} THEN travee_I
        ELSE Deref(h.I_var)[index_travee]
                 [CHOOSE k \in S : \A m \in S : m <= k]

\* the values of travee_I that the first n evaluations of the closed form
\* use, in the order of the loops (section, then i, then j); every_i tells
\* whether the scan runs for every loaded span (V_fleche) or only for
\* i == index_travee (W_rotaion)
RECURSIVE travee_I_trace(_, _, _, _)
travee_I_trace(h, index_travee, n, every_i) ==
    IF n = 0 THEN << >>
    ELSE LET before == travee_I_trace(h, index_travee, n - 1, every_i)
             travee_I == IF n = 1 THEN R(0) ELSE before[n - 1]
             i == ((n - 1) \div (h.division + 1)) % h.nombre_travee
             j == (n - 1) % (h.division + 1)
         IN  Append(before,
                    IF every_i \/ i = index_travee
                    THEN scan_travee_I(h, index_travee, j, travee_I)
                    ELSE travee_I)

\* travee_I at the evaluation for (section, i, j)
travee_I_at(h, index_travee, trace, section, i, j) ==
    IF Size(Deref(h.I_tr)) = 0
    THEN trace[(section * h.nombre_travee + i) * (h.division + 1) + j + 1]
    ELSE Deref(h.I_tr)[index_travee]

\* the number of closed-form evaluations of one task
Evaluations(h) == (h.division + 1) * h.nombre_travee * (h.division + 1)

\* the task of hyperstatique::W_rotaion for span index_travee
W_rotaion_task(h, index_travee) ==
    LET travee_length == Deref(h.L_tr)[index_travee]
        travee_E == Deref(h.E_tr)[index_travee]
        GD == Deref(h.GAUCHE_DROITE)
        al == Deref(h.alpha)[index_travee]
        trace == IF Size(Deref(h.I_tr)) = 0
                 THEN travee_I_trace(h, index_travee, Evaluations(h), FALSE)
                 ELSE << >>
    IN  [section \in 0..h.division |->
            LET Rot == Deref(h.W_iso_total)[index_travee][section]
            IN  sous_to_one([i \in 0..(h.nombre_travee - 1) |->
                    [j \in 0..h.division |->
                        LET rotation_val ==
                                calcul_rotation(GD[i][index_travee][j],
                                    GD[i][index_travee + 1][j],
                                    al[j], travee_length, travee_E,
                                    travee_I_at(h, index_travee, trace,
                                                section, i, j))
                        IN  IF index_travee = i
                            THEN RAdd(Rot[j], rotation_val)
                            ELSE rotation_val]])]

\* hyperstatique::W_rotaion
W_rotaion(h) ==
    [index_travee \in 0..(h.nombre_travee - 1) |->
        W_rotaion_task(h, index_travee)]

\* the task of hyperstatique::V_fleche for span index_travee
V_fleche_task(h, index_travee) ==
    LET travee_length == Deref(h.L_tr)[index_travee]
        travee_E == Deref(h.E_tr)[index_travee]
        GD == Deref(h.GAUCHE_DROITE)
        al == Deref(h.alpha)[index_travee]
        trace == IF Size(Deref(h.I_tr)) = 0
                 THEN travee_I_trace(h, index_travee, Evaluations(h), TRUE)
                 ELSE << >>
    IN  [section \in 0..h.division |->
            LET Rot == Deref(h.V_iso_total)[index_travee][section]
            IN  sous_to_one([i \in 0..(h.nombre_travee - 1) |->
                    [j \in 0..h.division |->
                        LET fleche_val ==
                                calcul_fleche(GD[i][index_travee][j],
                                    GD[i][index_travee + 1][j],
                                    al[j], travee_length, travee_E,
                                    travee_I_at(h, index_travee, trace,
                                                section, i, j))
                        IN  IF index_travee = i
                            THEN RAdd(Rot[j], fleche_val)
                            ELSE fleche_val]])]

\* hyperstatique::V_fleche
V_fleche(h) ==
    [index_travee \in 0..(h.nombre_travee - 1) |->
        V_fleche_task(h, index_travee)]

\* hyperstatique::Pour_T_hyp
Pour_T_hyp(h, number) ==
    [index_travee \in 0..(h.nombre_travee - 1) |->
        LET abscisse_T == Deref(h.abscisse_T_iso_total)[index_travee]
        IN  [k \in 0..h.division |->
                LET coo == IF index_travee = number
                           THEN [Deref(h.alpha) EXCEPT ![index_travee] =
                                     abscisse_T[k]]
                           ELSE Deref(h.alpha)
                IN  abscisse_des_point(h, coo)]]

\* the shear surface that hyperstatique::T_effort_tranchant computes
hyp_effort_tranchant_total(h) ==
    LET GD == Deref(h.GAUCHE_DROITE)
        alpha_second == Deref(h.alpha)
    IN  [index_travee \in 0..(h.nombre_travee - 1) |->
            LET travee_length == Deref(h.L_tr)[index_travee]
            IN  [conteur_de_section \in DOMAIN alpha_second[index_travee] |->
                    LET section == alpha_second[index_travee][conteur_de_section]
                        T_ == Deref(h.T_iso_total)[index_travee][conteur_de_section]
                        AtSection(j) ==
                            REq(section, alpha_second[index_travee][j])
                        \* the value of compteur when iteration j starts
                        compteur(j) ==
                            j + Cardinality({m \in 0..(j - 1) : AtSection(m)})
                    IN  sous_to_one([i \in 0..(h.nombre_travee - 1) |->
                            LET moment_interpolation(j) ==
                                    interpolate_effort_tranchant(
                                        GD[i][index_travee][j],
                                        GD[i][index_travee + 1][j],
                                        travee_length)
                            IN  IF index_travee = i
                                THEN sous_to_one([j \in 0..h.division |->
                                        IF AtSection(j)
                                        THEN push_back(
                                               One(RAdd(T_[compteur(j)],
                                                        moment_interpolation(j))),
                                               RAdd(T_[compteur(j) + 1],
                                                    moment_interpolation(j)))
                                        ELSE One(RAdd(T_[compteur(j)],
                                                      moment_interpolation(j)))])
                                ELSE [j \in 0..h.division |->
                                        moment_interpolation(j)]])]]

\* the abscissas taken from Pour_T_hyp(0) for every span
abscisse_hyp_effort_tranchant_of_first(h) ==
    [tr \in 0..(h.nombre_travee - 1) |-> Pour_T_hyp(h, 0)[tr]]

\* the abscissas that hyperstatique::T_effort_tranchant computes
abscisse_hyp_effort_tranchant_total(h) ==
    [tr \in 0..(h.nombre_travee - 1) |-> Pour_T_hyp(h, tr)[tr]]

\* hyperstatique::T_effort_tranchant
T_effort_tranchant(h, get_all_abscisse) ==
    IF get_all_abscisse = FALSE THEN hyp_effort_tranchant_total(h)
    ELSE abscisse_hyp_effort_tranchant_total(h)

(***************************************************************************)
(* The inputs.  A structure is a vector of spans drawn from ConstSpans     *)
(* (constant inertia) or VarSpans (variable inertia: the inertia table I   *)
(* and the position table X of the span); the vectors handed to the        *)
(* constructor are the spans' values, each vector possibly one element     *)
(* short, and the division count runs from -1 to MaxDivision.  All         *)
(* lengths, moduli and inertias are small integers, which float and double *)
(* hold exactly.  Every table of VarSpans is non-empty and starts at 0.    *)
(***************************************************************************)
ConstSpans ==
    { [L |-> 1, E |-> 1, I |-> 1], [L |-> 2, E |-> 1, I |-> 1],
      [L |-> 1, E |-> 2, I |-> 1] }

VarSpans ==
    { [L |-> 2, E |-> 1, I |-> <<1>>, X |-> <<0>>],
      [L |-> 1, E |-> 2, I |-> <<1, 2>>, X |-> <<0, 1>>],
      [L |-> 2, E |-> 1, I |-> <<2, 1, 1>>, X |-> <<0, 1, 2>>],
      [L |-> 2, E |-> 1, I |-> <<1, 2>>, X |-> <<0>>],
      [L |-> 2, E |-> 1, I |-> <<1, 2>>, X |-> <<0, 1>>],
      [L |-> 2, E |-> 1, I |-> <<1, 2, 1>>, X |-> <<0, 2, 1>>] }

\* the vector of the rationals of a sequence of integers
RVec(s) == [k \in 0..(Len(s) - 1) |-> R(s[k + 1])]

\* the first n - cut elements of the vector v
DropLast(v, cut) ==
    [k \in 0..(Size(v) - cut - 1) |-> v[k]]

ConstArgs ==
    { [kind |-> "constant",
       tous_longueur_travee |-> [i \in 0..(n - 1) |-> R(sp[i].L)],
       tous_young_module |-> DropLast([i \in 0..(n - 1) |-> R(sp[i].E)], cutE),
       tous_Inertie |-> DropLast([i \in 0..(n - 1) |-> R(sp[i].I)], cutI),
       tous_x_coords |-> EmptyVec,
       nb_division |-> d] :
      <<n, sp, cutE, cutI, d>> \in
          UNION { {n} \X [0..(n - 1) -> ConstSpans] \X (0..1) \X (0..1)
                      \X (-1..MaxDivision) : n \in 0..MaxTravee } }

VarArgs ==
    { [kind |-> "variable",
       tous_longueur_travee |-> [i \in 0..(n - 1) |-> R(sp[i].L)],
       tous_young_module |-> DropLast([i \in 0..(n - 1) |-> R(sp[i].E)], cut[1]),
       tous_Inertie |-> DropLast([i \in 0..(n - 1) |-> RVec(sp[i].I)], cut[2]),
       tous_x_coords |-> DropLast([i \in 0..(n - 1) |-> RVec(sp[i].X)], cut[3]),
       nb_division |-> d] :
      <<n, sp, cut, d>> \in
          UNION { {n} \X [0..(n - 1) -> VarSpans]
                      \X ((0..1) \X (0..1) \X (0..1))
                      \X (-1..MaxDivision) : n \in 0..MaxTravee } }

(***************************************************************************)
(* The construction of a hyperstatique, statement by statement.  pc is the *)
(* member the next statement of initialiser_donnees assigns; thrown is the *)
(* message of the exception that ended the construction, or "".            *)
(***************************************************************************)
Init ==
    /\ args \in ConstArgs \cup VarArgs
    /\ self = IF args.kind = "constant"
              THEN hyperstatique_const_members(args.tous_longueur_travee,
                       args.tous_young_module, args.tous_Inertie,
                       args.nb_division)
              ELSE hyperstatique_var_members(args.tous_longueur_travee,
                       args.tous_young_module, args.tous_Inertie,
                       args.tous_x_coords, args.nb_division)
    /\ pc = "constructor"
    /\ thrown = ""

\* the body of the constructor, up to the call of initialiser_donnees
Constructor ==
    /\ pc = "constructor"
    /\ LET r == IF args.kind = "constant"
                THEN hyperstatique_const(self, args.tous_longueur_travee,
                         args.tous_young_module, args.tous_Inertie,
                         args.nb_division)
                ELSE hyperstatique_var(self, args.tous_longueur_travee,
                         args.tous_young_module, args.tous_Inertie,
                         args.tous_x_coords, args.nb_division)
       IN  /\ self' = r.obj
           /\ thrown' = r.what
           /\ pc' = IF r.ok THEN "rap_cache" ELSE "failed"
    /\ UNCHANGED args

\* rap_cache = make_unique<rapport_focau>(a_tr(), b_tr(), c_tr(), nombre_travee)
Set_rap_cache ==
    /\ pc = "rap_cache"
    /\ LET r == mise_en_place(self)
       IN  IF r.ok
           THEN /\ self' = [r.obj EXCEPT !.rap_cache =
                               Ptr(rapport_focau(a_tr(r.obj), b_tr(r.obj),
                                                 c_tr(r.obj),
                                                 r.obj.nombre_travee))]
                /\ thrown' = ""
                /\ pc' = "phy"
           ELSE /\ self' = r.obj
                /\ thrown' = r.what
                /\ pc' = "failed"
    /\ UNCHANGED args

\* phy = make_unique<vector<double>>(rap_cache->phy())
Set_phy ==
    /\ pc = "phy"
    /\ self' = [self EXCEPT !.phy = Ptr(phy(Deref(self.rap_cache)))]
    /\ pc' = "phy_prime"
    /\ UNCHANGED <<args, thrown>>

\* phy_prime = make_unique<vector<double>>(rap_cache->phy_prime())
Set_phy_prime ==
    /\ pc = "phy_prime"
    /\ self' = [self EXCEPT !.phy_prime = Ptr(phy_prime(Deref(self.rap_cache)))]
    /\ pc' = "alpha"
    /\ UNCHANGED <<args, thrown>>

\* alpha = make_unique<...>(abscisse()), which moves the spans' grids out
Set_alpha ==
    /\ pc = "alpha"
    /\ self' = [self EXCEPT !.alpha = Ptr(abscisse(self)),
                            !.iso_cache = Ptr(moved_from(self))]
    /\ pc' = "abscisse_total"
    /\ UNCHANGED <<args, thrown>>

\* abscisse_total = make_unique<...>(abscisse_des_point(*alpha))
Set_abscisse_total ==
    /\ pc = "abscisse_total"
    /\ self' = [self EXCEPT !.abscisse_total =
                    Ptr(abscisse_des_point(self, Deref(self.alpha)))]
    /\ pc' = "GAUCHE_DROITE"
    /\ UNCHANGED <<args, thrown>>

\* the statement without the two caches that tr_G_D fills
Set_GAUCHE_DROITE_uncached ==
    /\ pc = "GAUCHE_DROITE"
    /\ self' = [self EXCEPT !.GAUCHE_DROITE = Ptr(tr_G_D(self))]
    /\ pc' = "Courbe_Moment_appuis"
    /\ UNCHANGED <<args, thrown>>

\* GAUCHE_DROITE = make_unique<...>(tr_G_D()), which fills the two caches
Set_GAUCHE_DROITE ==
    /\ pc = "GAUCHE_DROITE"
    /\ self' = [self EXCEPT
                    !.GAUCHE_DROITE = Ptr(tr_G_D(self)),
                    !.cached_moment_gauche =
                        Ptr(moment_au_appuit_travee_charger_gauche(self)),
                    !.cached_moment_droite =
                        Ptr(moment_au_appuit_travee_charger_droite(self))]
    /\ pc' = "Courbe_Moment_appuis"
    /\ UNCHANGED <<args, thrown>>

\* Courbe_Moment_appuis = make_unique<...>(courbe_M_appuit())
Set_Courbe_Moment_appuis ==
    /\ pc = "Courbe_Moment_appuis"
    /\ self' = [self EXCEPT !.Courbe_Moment_appuis = Ptr(courbe_M_appuit(self))]
    /\ pc' = "Mu_iso_total"
    /\ UNCHANGED <<args, thrown>>

\* Mu_iso_total, W_iso_total, V_iso_total, T_iso_total, abscisse_T_iso_total
Set_Mu_iso_total ==
    /\ pc = "Mu_iso_total"
    /\ self' = [self EXCEPT !.Mu_iso_total = Ptr(Mu_total(self))]
    /\ pc' = "W_iso_total"
    /\ UNCHANGED <<args, thrown>>

Set_W_iso_total ==
    /\ pc = "W_iso_total"
    /\ self' = [self EXCEPT !.W_iso_total = Ptr(W_total(self))]
    /\ pc' = "V_iso_total"
    /\ UNCHANGED <<args, thrown>>

Set_V_iso_total ==
    /\ pc = "V_iso_total"
    /\ self' = [self EXCEPT !.V_iso_total = Ptr(V_total(self))]
    /\ pc' = "T_iso_total"
    /\ UNCHANGED <<args, thrown>>

Set_T_iso_total ==
    /\ pc = "T_iso_total"
    /\ self' = [self EXCEPT !.T_iso_total = Ptr(T_total(self))]
    /\ pc' = "abscisse_T_iso_total"
    /\ UNCHANGED <<args, thrown>>

Set_abscisse_T_iso_total ==
    /\ pc = "abscisse_T_iso_total"
    /\ self' = [self EXCEPT !.abscisse_T_iso_total = Ptr(abscisse_T_total(self))]
    /\ pc' = "Courbe_moment_en_travee"
    /\ UNCHANGED <<args, thrown>>

\* Courbe_moment_en_travee = make_unique<...>(M_flechissant())
Set_Courbe_moment_en_travee ==
    /\ pc = "Courbe_moment_en_travee"
    /\ self' = [self EXCEPT !.Courbe_moment_en_travee = Ptr(M_flechissant(self))]
    /\ pc' = "Courbe_rotation_en_travee"
    /\ UNCHANGED <<args, thrown>>

\* Courbe_rotation_en_travee = make_unique<...>(W_rotaion())
Set_Courbe_rotation_en_travee ==
    /\ pc = "Courbe_rotation_en_travee"
    /\ self' = [self EXCEPT !.Courbe_rotation_en_travee = Ptr(W_rotaion(self))]
    /\ pc' = "Courbe_fleche_en_travee"
    /\ UNCHANGED <<args, thrown>>

\* Courbe_fleche_en_travee = make_unique<...>(V_fleche())
Set_Courbe_fleche_en_travee ==
    /\ pc = "Courbe_fleche_en_travee"
    /\ self' = [self EXCEPT !.Courbe_fleche_en_travee = Ptr(V_fleche(self))]
    /\ pc' = "Courbe_effort_tranchant_en_travee"
    /\ UNCHANGED <<args, thrown>>

\* Courbe_effort_tranchant_en_travee = make_unique<...>(T_effort_tranchant(false))
Set_Courbe_effort_tranchant_en_travee ==
    /\ pc = "Courbe_effort_tranchant_en_travee"
    /\ self' = [self EXCEPT !.Courbe_effort_tranchant_en_travee =
                    Ptr(T_effort_tranchant(self, FALSE))]
    /\ pc' = "Abscisse_Courbe_effort_tranchant_en_travee"
    /\ UNCHANGED <<args, thrown>>

\* Abscisse_Courbe_effort_tranchant_en_travee = make_unique<...>(T_effort_tranchant(true))
Set_Abscisse_Courbe_effort_tranchant_en_travee ==
    /\ pc = "Abscisse_Courbe_effort_tranchant_en_travee"
    /\ self' = [self EXCEPT !.Abscisse_Courbe_effort_tranchant_en_travee =
                    Ptr(T_effort_tranchant(self, TRUE))]
    /\ pc' = "Courbe_R_appuis"
    /\ UNCHANGED <<args, thrown>>

\* Courbe_R_appuis = make_unique<...>(courbe_R_appuit())
Set_Courbe_R_appuis ==
    /\ pc = "Courbe_R_appuis"
    /\ self' = [self EXCEPT !.Courbe_R_appuis = Ptr(courbe_R_appuit(self))]
    /\ pc' = "done"
    /\ UNCHANGED <<args, thrown>>

Next ==
    \/ Constructor
    \/ Set_rap_cache
    \/ Set_phy
    \/ Set_phy_prime
    \/ Set_alpha
    \/ Set_abscisse_total
    \/ Set_GAUCHE_DROITE
    \/ Set_Courbe_Moment_appuis
    \/ Set_Mu_iso_total
    \/ Set_W_iso_total
    \/ Set_V_iso_total
    \/ Set_T_iso_total
    \/ Set_abscisse_T_iso_total
    \/ Set_Courbe_moment_en_travee
    \/ Set_Courbe_rotation_en_travee
    \/ Set_Courbe_fleche_en_travee
    \/ Set_Courbe_effort_tranchant_en_travee
    \/ Set_Abscisse_Courbe_effort_tranchant_en_travee
    \/ Set_Courbe_R_appuis

Spec == Init /\ [][Next]_vars

(***************************************************************************)
(* Properties of the construction.                                         *)
(***************************************************************************)
\* C1: for a single span of constant inertia, every entry of GAUCHE_DROITE
\* is zero and the final moment, rotation, deflection and shear surfaces
\* equal, entry for entry, Mu_iso_total, W_iso_total, V_iso_total and
\* T_iso_total.
C1_SingleSpanIsIsostatic ==
    (args.kind = "constant" /\ self.nombre_travee = 1) =>
        /\ self.GAUCHE_DROITE # nullptr =>
              LET GD == Deref(self.GAUCHE_DROITE)
              IN  /\ DOMAIN GD = 0..0
                  /\ DOMAIN GD[0] = 0..1
                  /\ \A k \in 0..1 : GD[0][k] = [j \in 0..self.division |-> R(0)]
        /\ self.Courbe_moment_en_travee # nullptr =>
              Deref(self.Courbe_moment_en_travee) = Deref(self.Mu_iso_total)
        /\ self.Courbe_rotation_en_travee # nullptr =>
              Deref(self.Courbe_rotation_en_travee) = Deref(self.W_iso_total)
        /\ self.Courbe_fleche_en_travee # nullptr =>
              Deref(self.Courbe_fleche_en_travee) = Deref(self.V_iso_total)
        /\ self.Courbe_effort_tranchant_en_travee # nullptr =>
              Deref(self.Courbe_effort_tranchant_en_travee)
                  = Deref(self.T_iso_total)

\* a single span of constant inertia, of a length other than 1 and divided
\* in two, is fully constructed and its moment below the load is not zero
C1_Witness ==
    /\ pc = "done"
    /\ args.kind = "constant"
    /\ self.nombre_travee = 1
    /\ self.division = 2
    /\ Deref(self.L_tr)[0] # R(1)
    /\ Deref(self.Courbe_moment_en_travee)[0][1][1] # R(0)
    /\ Deref(self.Courbe_effort_tranchant_en_travee)[0][1][1] # R(0)

\* C2: Courbe_moment_en_travee[t][s][i*(D+1)+j] is the linear interpolation
\* m*(1 - x/L_t) + n*x/L_t of m = GAUCHE_DROITE[i][t][j] and
\* n = GAUCHE_DROITE[i][t+1][j] at x = alpha[t][s], plus
\* Mu_iso_total[t][s][j] if and only if t = i.
C2_MomentSuperposition ==
    self.Courbe_moment_en_travee # nullptr =>
        LET N == self.nombre_travee
            D == self.division
            GD == Deref(self.GAUCHE_DROITE)
            Mu == Deref(self.Mu_iso_total)
            Courbe == Deref(self.Courbe_moment_en_travee)
        IN  \A t \in 0..(N - 1) : \A s \in 0..D :
              /\ DOMAIN Courbe[t][s] = 0..(N * (D + 1) - 1)
              /\ \A i \in 0..(N - 1) : \A j \in 0..D :
                    LET x == Deref(self.alpha)[t][s]
                        L == Deref(self.L_tr)[t]
                        m == GD[i][t][j]
                        n == GD[i][t + 1][j]
                        line == RAdd(RMul(m, RSub(R(1), RDiv(x, L))),
                                     RMul(n, RDiv(x, L)))
                    IN  Courbe[t][s][i * (D + 1) + j]
                            = IF t = i THEN RAdd(line, Mu[t][s][j]) ELSE line

\* the moment surface of three spans is computed, and the moment at the
\* middle of the first span is not zero under a load on the third span and
\* differs from the moment at the middle of the second span
C2_Witness ==
    /\ self.Courbe_moment_en_travee # nullptr
    /\ self.nombre_travee = 3
    /\ self.division = 2
    /\ Deref(self.Courbe_moment_en_travee)[0][1][7] # R(0)
    /\ Deref(self.Courbe_moment_en_travee)[0][1][7]
          # Deref(self.Courbe_moment_en_travee)[1][1][7]

\* C3: in Courbe_rotation_en_travee[t][s] and Courbe_fleche_en_travee[t][s]
\* the correction for the loaded span i and the load index j is the closed
\* form of GAUCHE_DROITE[i][t][j] and GAUCHE_DROITE[i][t+1][j] evaluated at
\* the abscissa of the observed section, x = alpha[t][s], and the isostatic
\* value is added only when t = i (stated for constant inertia).
C3_CorrectionAtObservedSection ==
    (args.kind = "constant" /\ self.Courbe_fleche_en_travee # nullptr) =>
        LET N == self.nombre_travee
            D == self.division
            GD == Deref(self.GAUCHE_DROITE)
        IN  \A t \in 0..(N - 1) : \A s \in 0..D :
            \A i \in 0..(N - 1) : \A j \in 0..D :
                LET x == Deref(self.alpha)[t][s]
                    L == Deref(self.L_tr)[t]
                    E == Deref(self.E_tr)[t]
                    I == Deref(self.I_tr)[t]
                    w == calcul_rotation(GD[i][t][j], GD[i][t + 1][j],
                                         x, L, E, I)
                    v == calcul_fleche(GD[i][t][j], GD[i][t + 1][j],
                                       x, L, E, I)
                    e == i * (D + 1) + j
                IN  /\ Deref(self.Courbe_rotation_en_travee)[t][s][e]
                          = IF t = i
                            THEN RAdd(Deref(self.W_iso_total)[t][s][j], w)
                            ELSE w
                    /\ Deref(self.Courbe_fleche_en_travee)[t][s][e]
                          = IF t = i
                            THEN RAdd(Deref(self.V_iso_total)[t][s][j], v)
                            ELSE v

\* the product of f[lo], ..., f[hi]; 1 when there is no factor
RECURSIVE ProductOf(_, _, _)
ProductOf(f, lo, hi) ==
    IF hi < lo THEN R(1) ELSE RMul(f[lo], ProductOf(f, lo + 1, hi))

\* (-1)^n for an integer n of either sign
MinusOneTo(n) == IF n % 2 = 0 THEN R(1) ELSE R(-1)

C5_ReactionSameLoadPosition ==
    self.Courbe_R_appuis # nullptr =>
        LET D == self.division
            shear == Deref(self.Courbe_effort_tranchant_en_travee)
            position == Deref(self.Abscisse_Courbe_effort_tranchant_en_travee)
            reaction == Deref(self.Courbe_R_appuis)
        IN  \A t \in 0..(self.nombre_travee - 1) :
              /\ DOMAIN reaction[t] = DOMAIN shear[t][D]
              /\ \A e \in DOMAIN reaction[t] :
                    /\ reaction[t][e] = RSub(shear[t][D][e], shear[t][0][e])
                    /\ position[t][D][e] = position[t][0][e]

\* the arguments the constructor must refuse
InvalidArguments ==
    \/ Size(args.tous_young_module) # Size(args.tous_longueur_travee)
    \/ Size(args.tous_Inertie) # Size(args.tous_longueur_travee)
    \/ /\ args.kind = "variable"
       /\ Size(args.tous_x_coords) # Size(args.tous_longueur_travee)
    \/ Size(args.tous_longueur_travee) = 0
    \/ args.nb_division <= 0

\* the members that hold a span solver, a coefficient or a surface
ComputedMembers ==
    {"iso_cache", "rap_cache", "cached_moment_gauche", "cached_moment_droite",
     "phy", "phy_prime", "alpha", "abscisse_total", "GAUCHE_DROITE",
     "Courbe_Moment_appuis", "Mu_iso_total", "W_iso_total", "V_iso_total",
     "T_iso_total", "abscisse_T_iso_total", "Courbe_moment_en_travee",
     "Courbe_rotation_en_travee", "Courbe_fleche_en_travee",
     "Courbe_effort_tranchant_en_travee",
     "Abscisse_Courbe_effort_tranchant_en_travee", "Courbe_R_appuis"}

\* C10: with vectors of unequal sizes (the vector of position tables
\* included), with no span or with a division count <= 0, the constructor
\* throws before any span solver is built and before any coefficient or
\* surface is computed.
C10_InvalidArgumentsRefused ==
    (InvalidArguments /\ pc # "constructor") =>
        /\ pc = "failed"
        /\ thrown # ""
        /\ \A m \in ComputedMembers : self[m] = nullptr

\* the constructor has refused a variable structure of at least two spans
\* and a positive division whose vector of position tables alone is short
C10_Witness ==
    /\ pc = "failed"
    /\ args.kind = "variable"
    /\ args.nb_division > 0
    /\ Size(args.tous_longueur_travee) >= 2
    /\ Size(args.tous_young_module) = Size(args.tous_longueur_travee)
    /\ Size(args.tous_Inertie) = Size(args.tous_longueur_travee)
    /\ Size(args.tous_x_coords) # Size(args.tous_longueur_travee)
    /\ self.iso_cache = nullptr

(***************************************************************************)
(* The focal ratios on their own: a rapport_focau built from any three     *)
(* coefficient vectors of 1..MaxCoef, then phy() and phy_prime() called as *)
(* initialiser_donnees calls them.                                         *)
(***************************************************************************)
CoefVec(n) == [0..(n - 1) -> {R(v) : v \in 1..MaxCoef}]

\* the coefficient vectors whose element k is 1: phy() and phy_prime() read
\* a[i] and c[i-1] for i in 1..nb_travee-1 only, never a[0] nor
\* c[nb_travee-1], so one value of these two is enough
CoefVecUnread(n, k) == {v \in CoefVec(n) : v[k] = R(1)}

InitFocal ==
    /\ \E n \in 1..MaxTravee :
         \E liste_a \in CoefVecUnread(n, 0), liste_b \in CoefVec(n),
            liste_c \in CoefVecUnread(n, n - 1) :
            /\ args = [kind |-> "rapport_focau", liste_a |-> liste_a,
                       liste_b |-> liste_b, liste_c |-> liste_c,
                       nombre_travee |-> n]
            /\ self = [rap_cache |-> Ptr(rapport_focau(liste_a, liste_b,
                                                       liste_c, n)),
                       phy |-> nullptr, phy_prime |-> nullptr]
    /\ pc = "phy"
    /\ thrown = ""

NextFocal ==
    \/ Set_phy
    \/ Set_phy_prime

SpecFocal == InitFocal /\ [][NextFocal]_vars

(***************************************************************************)
(* Properties of the focal ratios.                                         *)
(***************************************************************************)
\* C6: phy() returns one value per span, phi[0] = 0 and, for every i in
\* 1..N-1, phi[i] = b[i] / (a[i] + c[i-1] - b[i-1] * phi[i-1]).
C6_PhyRecurrence ==
    self.phy # nullptr =>
        LET rf == Deref(self.rap_cache)
            phi == Deref(self.phy)
        IN  /\ DOMAIN phi = 0..(rf.nb_travee - 1)
            /\ phi[0] = R(0)
            /\ \A i \in 1..(rf.nb_travee - 1) :
                  phi[i] = RDiv(rf.b[i],
                                RSub(RAdd(rf.a[i], rf.c[i - 1]),
                                     RMul(rf.b[i - 1], phi[i - 1])))

\* phy() has run on three spans whose coefficients c differ from span to
\* span, and gave non-zero finite ratios after the first
C6_Witness ==
    /\ self.phy # nullptr
    /\ Deref(self.rap_cache).nb_travee = 3
    /\ Deref(self.rap_cache).c[0] # Deref(self.rap_cache).c[1]
    /\ \A i \in 1..2 : IsFinite(Deref(self.phy)[i]) /\ Deref(self.phy)[i] # R(0)

InitIso ==
    /\ \E longueur \in 1..MaxLongueur, Young_module \in 1..MaxCoef,
          Inertia \in 1..MaxCoef, nb_division \in 1..MaxDivisionIso :
            /\ args = [kind |-> "isostatique", longueur |-> R(longueur),
                       Young_module |-> R(Young_module),
                       Inertia |-> R(Inertia), nb_division |-> nb_division]
            /\ self = [iso |-> isostatique_const(R(longueur), R(Young_module),
                                   R(Inertia), nb_division).obj,
                       effort_tranchant |-> nullptr,
                       abscisse_effort_tranchant |-> nullptr,
                       moment_flechissant |-> nullptr,
                       rotation |-> nullptr,
                       fleche |-> nullptr]
    /\ pc = "isostatique"
    /\ thrown = ""

Call_effort_tranchant ==
    /\ pc = "isostatique"
    /\ self.effort_tranchant = nullptr
    /\ self' = [self EXCEPT !.effort_tranchant = Ptr(effort_tranchant(self.iso))]
    /\ UNCHANGED <<args, pc, thrown>>

Call_abscisse_effort_tranchant ==
    /\ pc = "isostatique"
    /\ self.abscisse_effort_tranchant = nullptr
    /\ self' = [self EXCEPT !.abscisse_effort_tranchant =
                    Ptr(abscisse_effort_tranchant(self.iso))]
    /\ UNCHANGED <<args, pc, thrown>>

Call_moment_flechissant ==
    /\ pc = "isostatique"
    /\ self.moment_flechissant = nullptr
    /\ self' = [self EXCEPT !.moment_flechissant =
                    Ptr(moment_flechissant(self.iso))]
    /\ UNCHANGED <<args, pc, thrown>>

Call_rotation ==
    /\ pc = "isostatique"
    /\ self.rotation = nullptr
    /\ self' = [self EXCEPT !.rotation = Ptr(rotation(self.iso))]
    /\ UNCHANGED <<args, pc, thrown>>

Call_fleche ==
    /\ pc = "isostatique"
    /\ self.fleche = nullptr
    /\ self' = [self EXCEPT !.fleche = Ptr(fleche(self.iso))]
    /\ UNCHANGED <<args, pc, thrown>>

NextIso ==
    \/ Call_effort_tranchant
    \/ Call_abscisse_effort_tranchant
    \/ Call_moment_flechissant
    \/ Call_rotation
    \/ Call_fleche

SpecIso == InitIso /\ [][NextIso]_vars

(***************************************************************************)
(* Properties of one span.                                                 *)
(***************************************************************************)
\* C8: for every position sigma of the grid, the shear row T(sigma) has D+2
\* samples: -x/L for each x < sigma, 1 - x/L for each x > sigma, and at
\* x == sigma both -sigma/L and 1 - sigma/L, at the same abscissa and
\* differing by exactly 1.
C8_ShearRow ==
    (self.effort_tranchant # nullptr /\ self.abscisse_effort_tranchant # nullptr)
    => LET D == self.iso.division
           L == self.iso.L
           x == Deref(self.iso.abscisse)
           rows == Deref(self.effort_tranchant)
           coordonne == Deref(self.abscisse_effort_tranchant)
       IN  /\ DOMAIN rows = 0..D
           /\ \A s \in 0..D :
                /\ DOMAIN rows[s] = 0..(D + 1)
                /\ DOMAIN coordonne[s] = 0..(D + 1)
                /\ \A k \in 0..(s - 1) :
                      /\ rows[s][k] = RDiv(RNeg(x[k]), L)
                      /\ coordonne[s][k] = x[k]
                /\ rows[s][s] = RDiv(RNeg(x[s]), L)
                /\ rows[s][s + 1] = RSub(R(1), RDiv(x[s], L))
                /\ coordonne[s][s] = x[s]
                /\ coordonne[s][s + 1] = x[s]
                /\ RSub(rows[s][s + 1], rows[s][s]) = R(1)
                /\ \A k \in (s + 1)..D :
                      /\ rows[s][k + 1] = RSub(R(1), RDiv(x[k], L))
                      /\ coordonne[s][k + 1] = x[k]

\* the shear rows of a span of at least three divisions and a length other
\* than 1 have been computed
C8_Witness ==
    /\ pc = "isostatique"
    /\ self.effort_tranchant # nullptr
    /\ self.abscisse_effort_tranchant # nullptr
    /\ self.iso.division >= 3
    /\ self.iso.L # R(1)

\* C9: the isostatic moment is symmetric: for all grid indices j and k, the
\* moment for sigma = alpha[j] at x = alpha[k] equals the moment for
\* sigma = alpha[k] at x = alpha[j].
C9_MomentSymmetric ==
    self.moment_flechissant # nullptr
    => LET D == self.iso.division
           Mu == Deref(self.moment_flechissant)
       IN  /\ DOMAIN Mu = 0..D
           /\ \A j \in 0..D : DOMAIN Mu[j] = 0..D
           /\ \A j, k \in 0..D : Mu[j][k] = Mu[k][j]

\* the moment rows have been computed and two different interior positions
\* have a non-zero moment, smaller than the one below the load
C9_Witness ==
    /\ pc = "isostatique"
    /\ self.moment_flechissant # nullptr
    /\ self.iso.division >= 3
    /\ Deref(self.moment_flechissant)[1][2] # R(0)
    /\ RLt(Deref(self.moment_flechissant)[1][2],
           Deref(self.moment_flechissant)[1][1])

(***************************************************************************)
(* The construction of a variable-inertia hyperstatique whose vectors have *)
(* equal sizes and whose spans' tables may disagree in length: a table of  *)
(* one inertia value over three positions, a well-formed table, and two    *)
(* inertia values over one or over three positions.                        *)
(***************************************************************************)
TableSpans ==
    { [L |-> 2, E |-> 1, I |-> <<1>>, X |-> <<0, 1, 2>>],
      [L |-> 1, E |-> 2, I |-> <<1, 2>>, X |-> <<0, 1>>],
      [L |-> 2, E |-> 1, I |-> <<1, 2>>, X |-> <<0>>],
      [L |-> 2, E |-> 1, I |-> <<1, 2>>, X |-> <<0, 1, 2>>] }

TableArgs ==
    { [kind |-> "variable",
       tous_longueur_travee |-> [i \in 0..(n - 1) |-> R(sp[i].L)],
       tous_young_module |-> [i \in 0..(n - 1) |-> R(sp[i].E)],
       tous_Inertie |-> [i \in 0..(n - 1) |-> RVec(sp[i].I)],
       tous_x_coords |-> [i \in 0..(n - 1) |-> RVec(sp[i].X)],
       nb_division |-> d] :
      <<n, sp, d>> \in
          UNION { {n} \X [0..(n - 1) -> TableSpans] \X (1..MaxDivision) :
                      n \in 1..MaxTravee } }

InitTables ==
    /\ args \in TableArgs
    /\ self = hyperstatique_var_members(args.tous_longueur_travee,
                  args.tous_young_module, args.tous_Inertie,
                  args.tous_x_coords, args.nb_division)
    /\ pc = "constructor"
    /\ thrown = ""

SpecTables == InitTables /\ [][Next]_vars

\* some span's inertia table and position table differ in length
SubTableMismatch ==
    /\ args.kind = "variable"
    /\ \E i \in DOMAIN args.tous_Inertie \cap DOMAIN args.tous_x_coords :
          Size(args.tous_Inertie[i]) # Size(args.tous_x_coords[i])

\* C11: when some span's inertia table and position table differ in length
\* (a single inertia value with several positions included), the
\* construction ends with an exception and computes no surface.
C11_SubTableMismatchRefused ==
    SubTableMismatch =>
        /\ pc \in {"constructor", "rap_cache", "failed"}
        /\ pc = "failed" => thrown # ""
        /\ \A m \in ComputedMembers \ {"iso_cache"} : self[m] = nullptr

(***************************************************************************)
(* The construction of one span on its own, as an isostatique or as a      *)
(* travee, of constant or of variable inertia, from a length and a         *)
(* division that may be zero or negative and from tables of one to three   *)
(* points at positions of 0..MaxLongueur; then, on a travee, a(), b() and  *)
(* c() called, each once, in any order.                                    *)
(***************************************************************************)
\* the sequences of one to three elements of S
Tables(S) == UNION { [1..k -> S] : k \in 1..3 }

\* the tables of inertia values: all 1, or 2 first and then 1
InertiaTables ==
    UNION { { [i \in 1..k |-> 1], [i \in 1..k |-> IF i = 1 THEN 2 ELSE 1] } :
                k \in 1..3 }

SpanArgs(longueur, division) ==
    { [class |-> cl, kind |-> "constant", L |-> R(l), E |-> R(e),
       I |-> R(i), nb_division |-> d] :
      <<cl, l, e, i, d>> \in {"isostatique", "travee"} \X (-1..longueur)
          \X (1..MaxCoef) \X (1..MaxCoef) \X (-1..division) }
    \cup
    { [class |-> cl, kind |-> "variable", L |-> R(l), E |-> R(1),
       I |-> RVec(it), pos_I_varier |-> RVec(xt), nb_division |-> d] :
      <<cl, l, it, xt, d>> \in {"isostatique", "travee"} \X (-1..longueur)
          \X InertiaTables \X Tables(0..longueur) \X (-1..division) }

InitSpan ==
    /\ args \in SpanArgs(MaxLongueur, MaxDivision)
    /\ self = [span |-> nullptr, a |-> nullptr, b |-> nullptr, c |-> nullptr]
    /\ pc = "span"
    /\ thrown = ""

\* the constructor of the class and the kind that args names
Construct_span ==
    /\ pc = "span"
    /\ LET r == IF args.kind = "constant"
                THEN (IF args.class = "travee"
                      THEN travee_const(args.L, args.E, args.I,
                                        args.nb_division)
                      ELSE isostatique_const(args.L, args.E, args.I,
                                             args.nb_division))
                ELSE (IF args.class = "travee"
                      THEN travee_var(args.L, args.E, args.I,
                                      args.pos_I_varier, args.nb_division)
                      ELSE isostatique_var(args.L, args.E, args.I,
                                           args.pos_I_varier,
                                           args.nb_division))
       IN  IF r.ok
           THEN /\ self' = [self EXCEPT !.span = Ptr(r.obj)]
                /\ pc' = "built"
                /\ thrown' = ""
           ELSE /\ pc' = "failed"
                /\ thrown' = r.what
                /\ UNCHANGED self
    /\ UNCHANGED args

Call_a ==
    /\ pc = "built"
    /\ args.class = "travee"
    /\ self.a = nullptr
    /\ self' = [self EXCEPT !.a = Ptr(a(Deref(self.span)))]
    /\ UNCHANGED <<args, pc, thrown>>

Call_b ==
    /\ pc = "built"
    /\ args.class = "travee"
    /\ self.b = nullptr
    /\ self' = [self EXCEPT !.b = Ptr(b(Deref(self.span)))]
    /\ UNCHANGED <<args, pc, thrown>>

Call_c ==
    /\ pc = "built"
    /\ args.class = "travee"
    /\ self.c = nullptr
    /\ self' = [self EXCEPT !.c = Ptr(c(Deref(self.span)))]
    /\ UNCHANGED <<args, pc, thrown>>

NextSpan ==
    \/ Construct_span
    \/ Call_a
    \/ Call_b
    \/ Call_c

SpecSpan == InitSpan /\ [][NextSpan]_vars

\* C12: the construction of a span (isostatique or travee, of constant or
\* of variable inertia) with a length <= 0 or with a division <= 0 ends
\* with an exception.
C12_NonPositiveRefused ==
    (pc # "span" /\ (RLe(args.L, R(0)) \/ args.nb_division <= 0)) =>
        /\ pc = "failed"
        /\ thrown # ""
        /\ self.span = nullptr

\* the position table of a variable-inertia span is not one the contract
\* allows: it does not start at 0, does not end at L, is not strictly
\* increasing, or differs in length from the table of inertia values
InvalidTable ==
    /\ args.kind = "variable"
    /\ LET X == args.pos_I_varier
       IN  \/ RNe(front(X), R(0))
           \/ RNe(back(X), args.L)
           \/ \E i \in 0..(Size(X) - 2) : RGe(X[i], X[i + 1])
           \/ Size(X) # Size(args.I)

\* C13: the construction of a variable-inertia span whose position table
\* does not start at 0, does not end at L, is not strictly increasing or
\* differs in length from the inertia table ends with an exception.
C13_InvalidTableRefused ==
    (pc # "span" /\ InvalidTable) =>
        /\ pc = "failed"
        /\ thrown # ""
        /\ self.span = nullptr

(***************************************************************************)
(* Properties of the tables of one inertia value (specification Spec).     *)
(***************************************************************************)
\* C14: a span given a table of one inertia value I0 is normalised to
\* {I0, I0} over {0, L}, and the structure has for that span the
\* coefficients a, b, c, the sequences omega' and omega'' and the rotation
\* and deflection arrays of the constant-inertia span with I = I0.
C14_SingleValueAsConstant ==
    (args.kind = "variable" /\ self.V_iso_total # nullptr) =>
        \A i \in 0..(self.nombre_travee - 1) :
            Size(args.tous_Inertie[i]) = 1 =>
                LET I0 == args.tous_Inertie[i][0]
                    L == args.tous_longueur_travee[i]
                    E == args.tous_young_module[i]
                    t == travee_const(L, E, I0, args.nb_division).obj
                    rf == Deref(self.rap_cache)
                IN  /\ Deref(self.I_var)[i] = VecOf(<<I0, I0>>)
                    /\ Deref(self.pos_I_var)[i] = VecOf(<<R(0), L>>)
                    /\ rf.a[i] = a(t)
                    /\ rf.b[i] = b(t)
                    /\ rf.c[i] = c(t)
                    /\ omega_prime_tr(self)[i] = omega_prime(t.iso)
                    /\ omega_second_tr(self)[i] = omega_second(t.iso)
                    /\ Deref(self.W_iso_total)[i] = rotation(t.iso)
                    /\ Deref(self.V_iso_total)[i] = fleche(t.iso)

(***************************************************************************)
(* The export of a constructed hyperstatique.  exporter_donnees_csv and    *)
(* exporter_donnees_json push one std::async task per artifact, then get   *)
(* every future in the order of the pushes.  The model keeps, of a task,   *)
(* the files it writes, and of a file, its directory and its name; the     *)
(* contents are not modelled.  args.unwritable is the set of directories   *)
(* in which no file can be opened (creeDossier only reports a failure).    *)
(* The caller pushes a task only while fewer than MaxEnCours tasks are     *)
(* unfinished: each behaviour is a schedule of the threads in which the    *)
(* caller is not run meanwhile.                                            *)
(***************************************************************************)
MaxEnCours == 2

\* hyperstatique::exporter_donnees_csv: the tasks in the order of their
\* push_back, each the sequence of the files it writes
exporter_donnees_csv_tasks(I_tr_empty) ==
    VecOf(<<<<[dir |-> "properties", file |-> "span_lengths.csv"]>>,
            <<[dir |-> "properties", file |-> "young_modulus.csv"]>>>>
          \o (IF I_tr_empty
              THEN <<<<[dir |-> "properties", file |-> "moment_of_inertia.csv"]>>,
                    <<[dir |-> "properties", file |-> "abscissas_of_moment_of_inertia.csv"]>>>>
              ELSE <<<<[dir |-> "properties", file |-> "moment_of_inertia.csv"]>>>>)
          \o <<<<[dir |-> "properties", file |-> "coefficient_a.csv"]>>,
              <<[dir |-> "properties", file |-> "coefficient_b.csv"]>>,
              <<[dir |-> "properties", file |-> "coefficient_c.csv"]>>,
              <<[dir |-> "properties", file |-> "phi.csv"]>>,
              <<[dir |-> "properties", file |-> "phi_prime.csv"]>>,
              <<[dir |-> "boundary_conditions", file |-> "support_moments.csv"]>>,
              <<[dir |-> "static_analysis", file |-> "bending_moments.csv"]>>,
              <<[dir |-> "static_analysis", file |-> "rotations.csv"]>>,
              <<[dir |-> "static_analysis", file |-> "deflections.csv"]>>,
              <<[dir |-> "static_analysis", file |-> "shear_forces.csv"]>>,
              <<[dir |-> "static_analysis", file |-> "shear_abscissas.csv"]>>,
              <<[dir |-> "static_analysis", file |-> "abscissas.csv"]>>,
              <<[dir |-> "influence_lines", file |-> "support_moments.csv"]>>,
              <<[dir |-> "influence_lines", file |-> "support_reactions.csv"]>>,
              <<[dir |-> "influence_lines", file |-> "span_moments.csv"]>>,
              <<[dir |-> "influence_lines", file |-> "span_rotations.csv"]>>,
              <<[dir |-> "influence_lines", file |-> "span_deflections.csv"]>>,
              <<[dir |-> "influence_lines", file |-> "span_shear_forces.csv"]>>,
              <<[dir |-> "influence_lines", file |-> "shear_abscissas.csv"]>>,
              <<[dir |-> "influence_lines", file |-> "total_abscissas.csv"]>>>>)

\* hyperstatique::exporter_donnees_json: the tasks in the order of their
\* push_back, each the sequence of the files it writes
exporter_donnees_json_tasks(I_tr_empty) ==
    VecOf(<<<<[dir |-> "properties", file |-> "span_lengths.json"]>>,
            <<[dir |-> "properties", file |-> "neouds_lengths.json"]>>,
            <<[dir |-> "properties", file |-> "young_modulus.json"]>>>>
          \o (IF I_tr_empty
              THEN <<<<[dir |-> "properties", file |-> "moment_of_inertia.json"]>>,
                    <<[dir |-> "properties", file |-> "abscissas_of_moment_of_inertia.json"], [dir |-> "properties", file |-> "moment_of_inertia.json"]>>>>
              ELSE <<<<[dir |-> "properties", file |-> "moment_of_inertia.json"]>>>>)
          \o <<<<[dir |-> "properties", file |-> "coefficient_a.json"]>>,
              <<[dir |-> "properties", file |-> "coefficient_b.json"]>>,
              <<[dir |-> "properties", file |-> "coefficient_c.json"]>>,
              <<[dir |-> "properties", file |-> "phi.json"]>>,
              <<[dir |-> "properties", file |-> "phi_prime.json"]>>,
              <<[dir |-> "boundary_conditions", file |-> "support_moments.json"]>>,
              <<[dir |-> "static_analysis", file |-> "bending_moments.json"]>>,
              <<[dir |-> "static_analysis", file |-> "rotations.json"]>>,
              <<[dir |-> "static_analysis", file |-> "deflections.json"]>>,
              <<[dir |-> "static_analysis", file |-> "shear_forces.json"]>>,
              <<[dir |-> "static_analysis", file |-> "shear_abscissas.json"]>>,
              <<[dir |-> "static_analysis", file |-> "abscissas.json"]>>,
              <<[dir |-> "influence_lines", file |-> "support_moments.json"]>>,
              <<[dir |-> "influence_lines", file |-> "support_reactions.json"]>>,
              <<[dir |-> "influence_lines", file |-> "span_moments.json"]>>,
              <<[dir |-> "influence_lines", file |-> "span_rotations.json"]>>,
              <<[dir |-> "influence_lines", file |-> "span_deflections.json"]>>,
              <<[dir |-> "influence_lines", file |-> "span_shear_forces.json"]>>,
              <<[dir |-> "influence_lines", file |-> "shear_abscissas.json"]>>,
              <<[dir |-> "influence_lines", file |-> "total_abscissas.json"]>>>>)

Directories ==
    {"properties", "boundary_conditions", "static_analysis", "influence_lines"}

\* a task has ended: it has written all its files or holds an exception
TaskEnded(f) == f.next = Len(f.paths) \/ f.exception # ""

Unfinished(futures) == {k \in DOMAIN futures : ~TaskEnded(futures[k])}

\* the tasks of the export that args names
ExportTasks ==
    IF args.format = "csv" THEN exporter_donnees_csv_tasks(args.I_tr_empty)
    ELSE exporter_donnees_json_tasks(args.I_tr_empty)

InitExport ==
    /\ args \in { [format |-> f, I_tr_empty |-> e, unwritable |-> u] :
                  <<f, e, u>> \in {"csv", "json"} \X BOOLEAN
                      \X ({{}} \cup {{d} : d \in Directories}) }
    /\ self = [futures |-> EmptyVec, written |-> {}, i |-> 0]
    /\ pc = "push"
    /\ thrown = ""

\* futures.push_back(std::async(std::launch::async, ...))
Export_push ==
    /\ pc = "push"
    /\ Size(self.futures) < Size(ExportTasks)
    /\ Cardinality(Unfinished(self.futures)) < MaxEnCours
    /\ self' = [self EXCEPT !.futures =
                   push_back(self.futures,
                             [paths |-> ExportTasks[Size(self.futures)],
                              next |-> 0, exception |-> ""])]
    /\ pc' = IF Size(self.futures) + 1 = Size(ExportTasks) THEN "get"
             ELSE "push"
    /\ UNCHANGED <<args, thrown>>

\* task k opens and writes its next file.  in_csv reports a file it cannot
\* open on std::cerr and returns; JsonHandler::saveToFile and writeToFile
\* throw std::runtime_error, which ends the task and stays in its future
Task_write(k) ==
    /\ k \in Unfinished(self.futures)
    /\ LET f == self.futures[k]
           path == f.paths[f.next + 1]
       IN  IF path.dir \in args.unwritable
           THEN self' = [self EXCEPT !.futures[k] =
                            IF args.format = "csv"
                            THEN [f EXCEPT !.next = f.next + 1]
                            ELSE [f EXCEPT !.exception =
                                     "Impossible d'ouvrir le fichier"]]
           ELSE self' = [self EXCEPT
                            !.futures[k] = [f EXCEPT !.next = f.next + 1],
                            !.written = self.written
                                \cup {[path |-> path, task |-> k]}]
    /\ UNCHANGED <<args, pc, thrown>>

\* future.get() on the future self.i: it waits for the task and rethrows
\* the exception the task ended with
Export_get ==
    /\ pc = "get"
    /\ self.i \notin Unfinished(self.futures)
    /\ IF self.futures[self.i].exception # ""
       THEN /\ pc' = "unwind"
            /\ thrown' = self.futures[self.i].exception
            /\ UNCHANGED self
       ELSE /\ self' = [self EXCEPT !.i = self.i + 1]
            /\ pc' = IF self.i + 1 = Size(self.futures) THEN "returned"
                     ELSE "get"
            /\ UNCHANGED thrown
    /\ UNCHANGED args

\* the exception leaves the function: the destructor of each future of
\* std::async waits for its task
Export_unwind ==
    /\ pc = "unwind"
    /\ Unfinished(self.futures) = {}
    /\ pc' = "failed"
    /\ UNCHANGED <<args, self, thrown>>

NextExport ==
    \/ Export_push
    \/ \E k \in 0..(Size(ExportTasks) - 1) : Task_write(k)
    \/ Export_get
    \/ Export_unwind

SpecExport == InitExport /\ [][NextExport]_vars

\* C15: within one export call no two tasks write the same file path.
C15_DistinctPaths ==
    \A w1 \in self.written : \A w2 \in self.written :
        w1.path = w2.path => w1.task = w2.task

\* C17: when a task of an export cannot write one of its files, the call
\* ends with an exception once every task has ended, and it never returns
\* normally while a file of one of its tasks was not written.
C17_ExportFailsWithItsTasks ==
    /\ pc = "returned" =>
          \A k \in DOMAIN self.futures :
              \A n \in 1..Len(self.futures[k].paths) :
                  [path |-> self.futures[k].paths[n], task |-> k]
                      \in self.written
    /\ pc = "failed" =>
          /\ thrown # ""
          /\ Unfinished(self.futures) = {}

(***************************************************************************)
(* The fan-out of M_flechissant, W_rotaion and V_fleche.  Each of the      *)
(* three methods pushes one std::async task per span into its local vector *)
(* futures, then calls get() on the futures in the order they were pushed  *)
(* and pushes each result into its local result vector.  The tasks run on  *)
(* their own threads: a task that has been pushed may end at any moment,   *)
(* before or after later tasks are pushed and in any order with the other  *)
(* tasks.  The two locals are kept in self next to the members; pc is the  *)
(* member whose initialiser is running.                                    *)
(***************************************************************************)

\* the members the three methods initialise, in the order of
\* initialiser_donnees
FanOutMethods ==
    {"Courbe_moment_en_travee", "Courbe_rotation_en_travee",
     "Courbe_fleche_en_travee"}

\* the lambda handed to std::async by the method that initialises member at
FanOutTask(h, at, index_travee) ==
    CASE at = "Courbe_moment_en_travee" -> M_flechissant_task(h, index_travee)
      [] at = "Courbe_rotation_en_travee" -> W_rotaion_task(h, index_travee)
      [] at = "Courbe_fleche_en_travee" -> V_fleche_task(h, index_travee)

\* the statement of initialiser_donnees that follows the initialiser of at
FanOutFollowing(at) ==
    CASE at = "Courbe_moment_en_travee" -> "Courbe_rotation_en_travee"
      [] at = "Courbe_rotation_en_travee" -> "Courbe_fleche_en_travee"
      [] at = "Courbe_fleche_en_travee" -> "Courbe_effort_tranchant_en_travee"

\* a variant of future_get that always reads the first future
future_get_front(hyp_total, futures) ==
    push_back(hyp_total, Deref(futures[0]))

\* one turn of "for (auto& future : futures)
\*                  hyp_moment_total.push_back(future.get())"
future_get(hyp_total, futures) ==
    push_back(hyp_total, Deref(futures[Size(hyp_total)]))

\* the structures the methods are run on: spans of alternating lengths, of
\* constant inertia or with the inertia tables of two spans of VarSpans
FanOutArgs ==
    { [kind |-> kind,
       tous_longueur_travee |->
           [i \in 0..(n - 1) |-> IF i % 2 = 0 THEN R(2) ELSE R(1)],
       tous_young_module |->
           [i \in 0..(n - 1) |-> IF i % 2 = 0 THEN R(1) ELSE R(2)],
       tous_Inertie |->
           IF kind = "constant" THEN [i \in 0..(n - 1) |-> R(1)]
           ELSE [i \in 0..(n - 1) |->
                    IF i % 2 = 0 THEN RVec(<<1>>) ELSE RVec(<<1, 2>>)],
       tous_x_coords |->
           IF kind = "constant" THEN EmptyVec
           ELSE [i \in 0..(n - 1) |->
                    IF i % 2 = 0 THEN RVec(<<0>>) ELSE RVec(<<0, 1>>)],
       nb_division |-> d] :
      <<kind, n, d>> \in
          {"constant", "variable"} \X (1..MaxTravee) \X (1..MaxDivision) }

InitFanOut ==
    /\ args \in FanOutArgs
    /\ self = (IF args.kind = "constant"
               THEN hyperstatique_const_members(args.tous_longueur_travee,
                        args.tous_young_module, args.tous_Inertie,
                        args.nb_division)
               ELSE hyperstatique_var_members(args.tous_longueur_travee,
                        args.tous_young_module, args.tous_Inertie,
                        args.tous_x_coords, args.nb_division))
              @@ [futures |-> EmptyVec, hyp_total |-> EmptyVec]
    /\ pc = "constructor"
    /\ thrown = ""

\* futures.push_back(std::async(std::launch::async, [this, index_travee] ...))
FanOut_push ==
    /\ pc \in FanOutMethods
    /\ Size(self.futures) < self.nombre_travee
    /\ self' = [self EXCEPT !.futures = push_back(@, nullptr)]
    /\ UNCHANGED <<args, pc, thrown>>

\* the task pushed for span index_travee runs to its return statement
FanOut_task(index_travee) ==
    /\ pc \in FanOutMethods
    /\ index_travee \in DOMAIN self.futures
    /\ self.futures[index_travee] = nullptr
    /\ self' = [self EXCEPT !.futures[index_travee] =
                    Ptr(FanOutTask(self, pc, index_travee))]
    /\ UNCHANGED <<args, pc, thrown>>

\* future.get() blocks until the task has ended, then its result is pushed
FanOut_get ==
    /\ pc \in FanOutMethods
    /\ Size(self.futures) = self.nombre_travee
    /\ Size(self.hyp_total) < Size(self.futures)
    /\ self.futures[Size(self.hyp_total)] # nullptr
    /\ self' = [self EXCEPT !.hyp_total = future_get(@, self.futures)]
    /\ UNCHANGED <<args, pc, thrown>>

\* return hyp_moment_total; the member takes it and the locals are destroyed
FanOut_return ==
    /\ pc \in FanOutMethods
    /\ Size(self.futures) = self.nombre_travee
    /\ Size(self.hyp_total) = Size(self.futures)
    /\ self' = [self EXCEPT ![pc] = Ptr(self.hyp_total),
                            !.futures = EmptyVec,
                            !.hyp_total = EmptyVec]
    /\ pc' = FanOutFollowing(pc)
    /\ UNCHANGED <<args, thrown>>

NextFanOut ==
    \/ Constructor
    \/ Set_rap_cache
    \/ Set_phy
    \/ Set_phy_prime
    \/ Set_alpha
    \/ Set_abscisse_total
    \/ Set_GAUCHE_DROITE
    \/ Set_Courbe_Moment_appuis
    \/ Set_Mu_iso_total
    \/ Set_W_iso_total
    \/ Set_V_iso_total
    \/ Set_T_iso_total
    \/ Set_abscisse_T_iso_total
    \/ FanOut_push
    \/ \E index_travee \in 0..(MaxTravee - 1) : FanOut_task(index_travee)
    \/ FanOut_get
    \/ FanOut_return

SpecFanOut == InitFanOut /\ [][NextFanOut]_vars

\* the surface the method that initialises member at computes, span by span
FanOutSurface(h, at) ==
    CASE at = "Courbe_moment_en_travee" -> M_flechissant(h)
      [] at = "Courbe_rotation_en_travee" -> W_rotaion(h)
      [] at = "Courbe_fleche_en_travee" -> V_fleche(h)

\* what a method has collected so far is the results of the first spans, in
\* span order
FanOutCollected ==
    pc \in FanOutMethods =>
        /\ Size(self.futures) <= self.nombre_travee
        /\ Size(self.hyp_total) <= Size(self.futures)
        /\ \A t \in DOMAIN self.hyp_total :
               self.hyp_total[t] = FanOutSurface(self, pc)[t]

\* a method returns only when it has pushed one task per span and every one
\* of them has ended, and the surface it returns has one entry per span,
\* entry t being the result for span t
FanOutReturnsAfterAll ==
    (pc \in FanOutMethods /\ pc' # pc) =>
        /\ Size(self.futures) = self.nombre_travee
        /\ \A t \in DOMAIN self.futures : self.futures[t] # nullptr
        /\ self'[pc] # nullptr
        /\ DOMAIN Deref(self'[pc]) = 0..(self.nombre_travee - 1)
        /\ \A t \in 0..(self.nombre_travee - 1) :
               Deref(self'[pc])[t] = FanOutSurface(self, pc)[t]

\* C16: M_flechissant, W_rotaion and V_fleche each push one task per span
\* and return only after every task has ended; the returned surface has one
\* entry per span and entry t is the result computed for span t, in whatever
\* order the tasks run and end.
C16_FanOutJoinsInSpanOrder ==
    [](FanOutCollected) /\ [][FanOutReturnsAfterAll]_vars

\* W_rotaion has collected the result of the first of three spans, whose
\* task ended after the task of the last span and before that of the second
C16_Witness_OutOfOrder ==
    /\ pc = "Courbe_rotation_en_travee"
    /\ self.nombre_travee = 3
    /\ Size(self.futures) = 3
    /\ Size(self.hyp_total) = 1
    /\ self.futures[1] = nullptr
    /\ self.futures[2] # nullptr
    /\ self.Courbe_moment_en_travee # nullptr
    /\ self.hyp_total[0] # self.futures[2][1]

(***************************************************************************)
(* The helpers of traitement: trapeze, split_by_sign, max_1 and max_2.     *)
(* args.call names the function that is called and holds its arguments;    *)
(* self holds the members the functions read (Alpha and nombre_morceau)    *)
(* and ret, the value the call returns.  pc goes from "call" to            *)
(* "returned", to "failed" (thrown is the message of the                   *)
(* std::runtime_error) or to "crashed" (the process is killed).            *)
(***************************************************************************)
MaxPoints == 3

MaxCells == 4

\* std::is_sorted(x.begin(), x.end())
is_sorted(x) ==
    \A i \in DOMAIN x : (i + 1) \in DOMAIN x => ~RLt(x[i + 1], x[i])

\* a variant of aire_trapeze that takes the rectangle of height base1
aire_rectangle(base1, base2, hauteur) ==
    RMul(base1, hauteur)

\* double aire_trapeze = (base1 + base2) * hauteur / 2
aire_trapeze(base1, base2, hauteur) ==
    RDiv(RMul(RAdd(base1, base2), hauteur), R(2))

\* the loop of traitement::trapeze from interval i on and the statements
\* after it, aire and erreur_accumulee holding the values of the variables
RECURSIVE trapeze_from(_, _, _, _, _)
trapeze_from(x, y, i, aire, erreur_accumulee) ==
    IF i >= Size(x) - 1
    THEN LET total == RAdd(aire, erreur_accumulee)
         IN  IF IsNaN(total) \/ ~IsFinite(total)
             THEN Throw("Invalid area calculation: NaN or infinite value detected")
             ELSE Built(total)
    ELSE LET hauteur == RSub(x[i + 1], x[i])
             temp == RAdd(aire, aire_trapeze(y[i], y[i + 1], hauteur))
         IN  IF RLe(hauteur, R(0))
             THEN Throw("Invalid interval: non-positive height detected")
             ELSE trapeze_from(x, y, i + 1, temp,
                      RAdd(erreur_accumulee,
                           RAdd(RSub(aire, temp),
                                aire_trapeze(y[i], y[i + 1], hauteur))))

\* x.size() - 1 is computed in size_t: with x empty it is SIZE_MAX, and the
\* loop reads x[1] and x[0] of a vector that has no element
trapeze_undefined(x, y) == Size(x) = 0 /\ Size(y) = 0

\* traitement::trapeze, for the arguments on which it is defined
trapeze(x, y) ==
    IF Size(x) # Size(y)
    THEN Throw("Mismatch between moments and abscisses dimensions")
    ELSE IF ~is_sorted(x)
    THEN Throw("Abscisses must be sorted in ascending order")
    ELSE trapeze_from(x, y, 0, R(0), R(0))

\* bool element_sign = input[i] > 0, a variant of element_sign
element_sign_strict(v) == RGt(v, R(0))

\* bool element_sign = input[i] >= 0
element_sign(v) == RGe(v, R(0))

\* the loop of traitement::split_by_sign from element i on and the
\* statements after it
RECURSIVE split_by_sign_from(_, _, _, _, _)
split_by_sign_from(input, i, result, current_sublist, current_sign) ==
    IF i >= Size(input)
    THEN (IF Size(current_sublist) # 0
          THEN push_back(result, current_sublist)
          ELSE result)
    ELSE IF element_sign(input[i]) # current_sign
    THEN split_by_sign_from(input, i + 1,
             push_back(result, current_sublist),
             push_back(EmptyVec, input[i]), element_sign(input[i]))
    ELSE split_by_sign_from(input, i + 1, result,
             push_back(current_sublist, input[i]), current_sign)

\* traitement::split_by_sign
split_by_sign(input) ==
    IF Size(input) = 0 THEN EmptyVec
    ELSE split_by_sign_from(input, 1, EmptyVec,
             push_back(EmptyVec, input[0]), element_sign(input[0]))

\* fabs of <cmath>
fabs(x) == <<Abs(x[1]), x[2]>>

\* *std::max_element(v.begin(), v.end()) of a vector that is not empty
max_element(v) ==
    v[CHOOSE i \in DOMAIN v :
          /\ \A j \in DOMAIN v : ~RLt(v[i], v[j])
          /\ \A j \in DOMAIN v : j < i => RLt(v[j], v[i])]

\* std::distance(v.begin(), std::find(v.begin(), v.end(), x)), x being in v
find(v, x) ==
    CHOOSE i \in DOMAIN v :
        /\ REq(v[i], x)
        /\ \A j \in DOMAIN v : j < i => ~REq(v[j], x)

\* The values of a surface are written in units of 5e-11, so that the
\* tolerance 1e-10 of traitement::contient is two units.
epsilon == R(2)

\* traitement::contient
contient(vecteur, nombre) ==
    \E k \in DOMAIN vecteur : RLt(fabs(RSub(vecteur[k], nombre)), epsilon)

\* the abscissa max_1 and max_2 report for point index of span travee
position_of(h, travee, index) ==
    LET grid == Deref(h.Alpha)[travee]
        scaled == (index * (Size(grid) - 1)) \div h.nombre_morceau
        clamp(k) == IF k < 0 THEN 0
                    ELSE IF k > Size(grid) - 1 THEN Size(grid) - 1 ELSE k
        index_inf == clamp(scaled)
        index_sup == clamp(scaled)
        x1 == Frac(index_inf * h.nombre_morceau, Size(grid) - 1)
        x2 == Frac(index_sup * h.nombre_morceau, Size(grid) - 1)
        y1 == grid[index_inf]
        y2 == grid[index_sup]
    IN  IF index < Size(grid) THEN grid[index]
        ELSE IF RNe(x2, x1)
        THEN RAdd(y1, RDiv(RMul(RSub(y2, y1), RSub(R(index), x1)),
                           RSub(x2, x1)))
        ELSE y1

\* traitement::max_1, for a surface whose vectors are not empty
max_1(h, vecteur) ==
    LET bb == [t \in DOMAIN vecteur |->
                  max_element([s \in DOMAIN vecteur[t] |->
                      max_element([k \in DOMAIN vecteur[t][s] |->
                          fabs(vecteur[t][s][k])])])]
        max == max_element(bb)
        index_travee == find(bb, max)
        found == {s \in DOMAIN vecteur[index_travee] :
                     \/ contient(vecteur[index_travee][s], max)
                     \/ contient(vecteur[index_travee][s], RNeg(max))}
        index_section ==
            IF found = {} THEN 0
            ELSE CHOOSE s \in found : \A d \in found : s <= d
        max_val_3 == max_element(vecteur[index_travee][index_section])
    IN  [valeur |-> IF RNe(max_val_3, max) THEN RNeg(max) ELSE max,
         index_travee |-> index_travee,
         index_section |-> index_section,
         position |-> position_of(h, index_travee, index_section)]

\* traitement::max_2, for a surface whose vectors are not empty
max_2(h, vecteur) ==
    LET bb == [t \in DOMAIN vecteur |->
                  max_element([k \in DOMAIN vecteur[t] |->
                      fabs(vecteur[t][k])])]
        index_moment_au_appuis == find(bb, max_element(bb))
        donne == vecteur[index_moment_au_appuis]
        max == IF RNe(max_element(donne), max_element(bb))
               THEN RNeg(max_element(bb)) ELSE max_element(bb)
        found == {k \in DOMAIN donne : REq(donne[k], max)}
        position_index ==
            IF found = {} THEN 0
            ELSE CHOOSE k \in found : \A d \in found : k <= d
        travee == position_index \div (h.nombre_morceau + 1)
        position_dans_travee == position_index % (h.nombre_morceau + 1)
    IN  [valeur |-> max,
         appuis |-> index_moment_au_appuis,
         index |-> position_index,
         position |-> position_of(h, travee, position_dans_travee),
         travee |-> travee]

\* the vectors of at most n elements of S
VectorsUpTo(n, S) == UNION { [0..(k - 1) -> S] : k \in 0..n }

\* the example of the documentation of split_by_sign
SplitExample == VecOf(<<R(1), R(2), R(-3), R(-4), R(5), R(0), R(-1)>>)

\* the ordinates: two finite values and +infinity
Ordinates == {R(-1), R(2), <<1, 0>>}

\* the values of a surface, in units of 5e-11
SurfaceValues == {R(-2), R(-1), R(0), R(1), R(2)}

\* the arguments of the calls: abscissas and ordinates of at most points
\* points, the ordinates as many as the abscissas or one fewer (those of
\* unsorted abscissas, which trapeze does not read, are all 2); sequences
\* of at most points + 1 values; surfaces of at most cells values
TraitementArgs(points, cells) ==
    { [call |-> "trapeze", x |-> x, y |-> DropLast(y, cut)] :
        <<x, y, cut>> \in
            UNION { {x} \X (IF is_sorted(x) THEN [DOMAIN x -> Ordinates]
                                 ELSE {[i \in DOMAIN x |-> R(2)]})
                        \X (IF Size(x) = 0 THEN {0} ELSE 0..1) :
                    x \in VectorsUpTo(points,
                              {R(k) : k \in 0..MaxLongueur}) } }
    \cup { [call |-> "split_by_sign", input |-> input] :
             input \in VectorsUpTo(points + 1, {R(-1), R(0), R(1)})
                           \cup {SplitExample} }
    \cup { [call |-> "max_1", vecteur |-> vecteur] :
             vecteur \in
                 UNION { [0..(d[1] - 1) -> [0..(d[2] - 1) ->
                                [0..(d[3] - 1) -> SurfaceValues]]] :
                         d \in {e \in (1..cells) \X (1..cells)
                                          \X (1..cells) :
                                    e[1] * e[2] * e[3] <= cells} } }
    \cup { [call |-> "max_2", vecteur |-> vecteur] :
             vecteur \in
                 UNION { [0..(d[1] - 1) -> [0..(d[2] - 1) -> SurfaceValues]] :
                         d \in {e \in (1..cells) \X (1..cells) :
                                    e[1] * e[2] <= cells} } }

\* a traitement of spans of length 1 cut in one piece
InitTraitement ==
    /\ args \in TraitementArgs(MaxPoints, MaxCells)
    /\ self = [nombre_morceau |-> 1,
               Alpha |-> Ptr([t \in 0..(MaxCells - 1) |->
                                 VecOf(<<R(0), R(1)>>)]),
               ret |-> nullptr]
    /\ pc = "call"
    /\ thrown = ""

\* trapeze(x, y): it returns, it throws or, with two empty vectors, it reads
\* what no vector holds: the process is killed, or the loop goes on with the
\* values read and ends by one of its exits
Call_trapeze ==
    /\ pc = "call"
    /\ args.call = "trapeze"
    /\ IF trapeze_undefined(args.x, args.y)
       THEN \/ /\ pc' = "crashed"
               /\ UNCHANGED <<self, thrown>>
            \/ /\ pc' = "failed"
               /\ thrown' \in
                      {"Invalid interval: non-positive height detected",
                       "Invalid area calculation: NaN or infinite value detected"}
               /\ UNCHANGED self
            \/ /\ pc' = "returned"
               /\ \E v \in {R(0), R(1)} : self' = [self EXCEPT !.ret = Ptr(v)]
               /\ UNCHANGED thrown
       ELSE LET r == trapeze(args.x, args.y)
            IN  IF r.ok
                THEN /\ self' = [self EXCEPT !.ret = Ptr(r.obj)]
                     /\ pc' = "returned"
                     /\ UNCHANGED thrown
                ELSE /\ pc' = "failed"
                     /\ thrown' = r.what
                     /\ UNCHANGED self
    /\ UNCHANGED args

\* split_by_sign(input)
Call_split_by_sign ==
    /\ pc = "call"
    /\ args.call = "split_by_sign"
    /\ self' = [self EXCEPT !.ret = Ptr(split_by_sign(args.input))]
    /\ pc' = "returned"
    /\ UNCHANGED <<args, thrown>>

\* max_1(vecteur)
Call_max_1 ==
    /\ pc = "call"
    /\ args.call = "max_1"
    /\ self' = [self EXCEPT !.ret = Ptr(max_1(self, args.vecteur))]
    /\ pc' = "returned"
    /\ UNCHANGED <<args, thrown>>

\* max_2(vecteur)
Call_max_2 ==
    /\ pc = "call"
    /\ args.call = "max_2"
    /\ self' = [self EXCEPT !.ret = Ptr(max_2(self, args.vecteur))]
    /\ pc' = "returned"
    /\ UNCHANGED <<args, thrown>>

NextTraitement ==
    \/ Call_trapeze
    \/ Call_split_by_sign
    \/ Call_max_1
    \/ Call_max_2

SpecTraitement == InitTraitement /\ [][NextTraitement]_vars

(***************************************************************************)
(* Properties of the helpers of traitement.                                *)
(***************************************************************************)

\* the arguments trapeze is documented to refuse: vectors of different
\* lengths, or two consecutive abscissas that are equal or decreasing
\* (which unsorted abscissas have)
TrapezeRefused(x, y) ==
    \/ Size(x) # Size(y)
    \/ \E i \in DOMAIN x : (i + 1) \in DOMAIN x /\ ~RLt(x[i], x[i + 1])

\* the sum over i < n of (y[i] + y[i+1]) * (x[i+1] - x[i]) / 2
RECURSIVE TrapezeSum(_, _, _)
TrapezeSum(x, y, n) ==
    IF n <= 0 THEN R(0)
    ELSE RAdd(TrapezeSum(x, y, n - 1),
              RDiv(RMul(RAdd(y[n - 1], y[n]), RSub(x[n], x[n - 1])), R(2)))

\* the call returned the sum of the trapezoids, which is c * L when the
\* ordinates all equal a finite c and the abscissas run from 0 to L
TrapezeReturnsSum ==
    /\ pc = "returned"
    /\ self.ret = Ptr(TrapezeSum(args.x, args.y, Size(args.x) - 1))
    /\ (/\ Size(args.x) > 0
        /\ args.x[0] = R(0)
        /\ IsFinite(args.y[0])
        /\ \A i \in DOMAIN args.y : args.y[i] = args.y[0])
           => self.ret = Ptr(RMul(args.y[0], back(args.x)))

\* C18 as stated: trapeze raises an error when xs and ys differ in length,
\* when xs is not sorted or when two consecutive abscissas are equal or
\* decreasing, and on every other input returns the sum of the trapezoids
\* (c * L for constant ordinates c over abscissas from 0 to L).
C18_TrapezeSumOnEveryOtherInput ==
    (args.call = "trapeze" /\ pc # "call") =>
        IF TrapezeRefused(args.x, args.y)
        THEN pc = "failed" /\ thrown # ""
        ELSE TrapezeReturnsSum

\* C18 (amended): given at least one point, trapeze raises an error when
\* xs and ys differ in length, when two consecutive abscissas are equal or
\* decreasing, or when the sum of the trapezoids is infinite or not a
\* number; on every other input it returns that sum (c * L for constant
\* ordinates c over abscissas from 0 to L).
C18_TrapezeSumWhenFinite ==
    (args.call = "trapeze" /\ pc # "call"
         /\ Size(args.x) + Size(args.y) > 0) =>
        IF TrapezeRefused(args.x, args.y)
        THEN pc = "failed" /\ thrown # ""
        ELSE IF ~IsFinite(TrapezeSum(args.x, args.y, Size(args.x) - 1))
        THEN /\ pc = "failed"
             /\ thrown = "Invalid area calculation: NaN or infinite value detected"
        ELSE TrapezeReturnsSum

\* trapeze returned the area under ordinates that are not constant, over
\* three abscissas that do not start at 0
C18_Witness_ThreePoints ==
    /\ args.call = "trapeze"
    /\ pc = "returned"
    /\ Size(args.x) = 3
    /\ args.x[0] # R(0)
    /\ args.y[0] # args.y[1]
    /\ self.ret # Ptr(R(0))

\* the sign class of a value: TRUE for value >= 0, FALSE for value < 0
SignClass(v) == ~RLt(v, R(0))

\* the first n vectors of runs, one after the other
RECURSIVE Concatenation(_, _)
Concatenation(runs, n) ==
    IF n = 0 THEN EmptyVec
    ELSE insert_end(Concatenation(runs, n - 1), runs[n - 1])

\* what the documentation of split_by_sign gives for SplitExample
SplitExampleRuns ==
    VecOf(<<VecOf(<<R(1), R(2)>>), VecOf(<<R(-3), R(-4)>>),
            VecOf(<<R(5), R(0)>>), VecOf(<<R(-1)>>)>>)

\* C19: split_by_sign cuts its input into the maximal runs of consecutive
\* values of one sign class, zero counting as non-negative: no run is
\* empty, the values of a run have one sign class, adjacent runs have
\* different sign classes, and the runs one after the other are the input;
\* [1,2,-3,-4,5,0,-1] gives [[1,2],[-3,-4],[5,0],[-1]].
C19_SplitBySignMaximalRuns ==
    (args.call = "split_by_sign" /\ pc # "call") =>
        /\ pc = "returned"
        /\ self.ret # nullptr
        /\ LET runs == Deref(self.ret)
           IN  /\ DOMAIN runs = 0..(Size(runs) - 1)
               /\ \A r \in DOMAIN runs :
                      /\ Size(runs[r]) > 0
                      /\ \A k \in DOMAIN runs[r] :
                             SignClass(runs[r][k]) = SignClass(runs[r][0])
               /\ \A r \in DOMAIN runs :
                      (r + 1) \in DOMAIN runs =>
                          SignClass(runs[r][0]) # SignClass(runs[r + 1][0])
               /\ Concatenation(runs, Size(runs)) = args.input
               /\ args.input = SplitExample => runs = SplitExampleRuns

\* split_by_sign returned the four runs of the example, one of which ends
\* with a zero
C19_Witness_Example ==
    /\ args.call = "split_by_sign"
    /\ args.input = SplitExample
    /\ pc = "returned"
    /\ Size(Deref(self.ret)) = 4
    /\ back(Deref(self.ret)[2]) = R(0)

\* the absolute values of the surface vecteur of max_1
AbsValues3(vecteur) ==
    UNION { UNION { {fabs(vecteur[t][s][k]) : k \in DOMAIN vecteur[t][s]} :
                    s \in DOMAIN vecteur[t] } : t \in DOMAIN vecteur }

\* the largest absolute value of the surface vecteur of max_1
MaxAbs3(vecteur) ==
    CHOOSE m \in AbsValues3(vecteur) :
        \A n \in AbsValues3(vecteur) : ~RLt(m, n)

\* the absolute values of the surface vecteur of max_2
AbsValues2(vecteur) ==
    UNION { {fabs(vecteur[t][k]) : k \in DOMAIN vecteur[t]} :
            t \in DOMAIN vecteur }

\* the largest absolute value of the surface vecteur of max_2
MaxAbs2(vecteur) ==
    CHOOSE m \in AbsValues2(vecteur) :
        \A n \in AbsValues2(vecteur) : ~RLt(m, n)

\* section s of span t holds a value of the largest absolute value
HoldsMaxAbs(vecteur, t, s) ==
    \E k \in DOMAIN vecteur[t][s] :
        fabs(vecteur[t][s][k]) = MaxAbs3(vecteur)

\* max_1 reports a value of the largest absolute value, which occurs in the
\* section it reports, the first section in span-major then section-major
\* order that holds a value of the largest absolute value
Max1ReportsFirstExtremum ==
    LET r == Deref(self.ret)
        vecteur == args.vecteur
    IN  /\ fabs(r.valeur) = MaxAbs3(vecteur)
        /\ r.index_travee \in DOMAIN vecteur
        /\ r.index_section \in DOMAIN vecteur[r.index_travee]
        /\ \E k \in DOMAIN vecteur[r.index_travee][r.index_section] :
               vecteur[r.index_travee][r.index_section][k] = r.valeur
        /\ \A t \in DOMAIN vecteur : \A s \in DOMAIN vecteur[t] :
               (t < r.index_travee
                    \/ (t = r.index_travee /\ s < r.index_section))
                   => ~HoldsMaxAbs(vecteur, t, s)

\* max_2 reports a value of the largest absolute value, which is the value
\* at the support and the position it reports, the first in support-major
\* then position-major order that has the largest absolute value
Max2ReportsFirstExtremum ==
    LET r == Deref(self.ret)
        vecteur == args.vecteur
    IN  /\ fabs(r.valeur) = MaxAbs2(vecteur)
        /\ r.appuis \in DOMAIN vecteur
        /\ r.index \in DOMAIN vecteur[r.appuis]
        /\ vecteur[r.appuis][r.index] = r.valeur
        /\ \A t \in DOMAIN vecteur : \A k \in DOMAIN vecteur[t] :
               (t < r.appuis \/ (t = r.appuis /\ k < r.index))
                   => fabs(vecteur[t][k]) # MaxAbs2(vecteur)

\* C20: for every non-empty finite surface, max_1 and max_2 return a signed
\* value whose absolute value is the largest absolute value of the surface,
\* with a span (support) index and a section (position) index at which that
\* signed value occurs, the first in iteration order among the entries of
\* the largest absolute value.
C20_MaxReportsFirstExtremum ==
    /\ (args.call = "max_1" /\ pc # "call") =>
           pc = "returned" /\ Max1ReportsFirstExtremum
    /\ (args.call = "max_2" /\ pc # "call") =>
           pc = "returned" /\ Max2ReportsFirstExtremum

\* the inertias of span t that the claim allows at load index j: the
\* inertia of the span (constant inertia), or those of the segments of its
\* table that hold the abscissa alpha[t][j]
OwnInertias(h, t, j) ==
    IF Size(Deref(h.I_tr)) # 0 THEN {Deref(h.I_tr)[t]}
    ELSE {Deref(h.I_var)[t][k] :
              k \in {m \in 0..(Size(Deref(h.pos_I_var)[t]) - 2) :
                        /\ RLe(Deref(h.pos_I_var)[t][m], Deref(h.alpha)[t][j])
                        /\ RLe(Deref(h.alpha)[t][j],
                               Deref(h.pos_I_var)[t][m + 1])}}

\* the rotation at (t, section, i, j) is the isostatic rotation (when
\* i = t) plus the correction with span t's length, modulus and inertia I
RotationWith(h, t, section, i, j, I) ==
    LET GD == Deref(h.GAUCHE_DROITE)
        val == calcul_rotation(GD[i][t][j], GD[i][t + 1][j],
                   Deref(h.alpha)[t][j], Deref(h.L_tr)[t],
                   Deref(h.E_tr)[t], I)
    IN  Deref(h.Courbe_rotation_en_travee)[t][section]
                [i * (h.division + 1) + j]
            = IF i = t THEN RAdd(Deref(h.W_iso_total)[t][section][j], val)
              ELSE val

\* the same for the deflection
FlecheWith(h, t, section, i, j, I) ==
    LET GD == Deref(h.GAUCHE_DROITE)
        val == calcul_fleche(GD[i][t][j], GD[i][t + 1][j],
                   Deref(h.alpha)[t][j], Deref(h.L_tr)[t],
                   Deref(h.E_tr)[t], I)
    IN  Deref(h.Courbe_fleche_en_travee)[t][section]
                [i * (h.division + 1) + j]
            = IF i = t THEN RAdd(Deref(h.V_iso_total)[t][section][j], val)
              ELSE val

\* the rotation surface is computed with the spans' own inertias
RotationUsesOwnSpan ==
    \A t \in 0..(self.nombre_travee - 1) : \A section \in 0..self.division :
        \A i \in 0..(self.nombre_travee - 1) : \A j \in 0..self.division :
            \E I \in OwnInertias(self, t, j) :
                RotationWith(self, t, section, i, j, I)

\* the deflection surface is computed with the spans' own inertias
FlecheUsesOwnSpan ==
    \A t \in 0..(self.nombre_travee - 1) : \A section \in 0..self.division :
        \A i \in 0..(self.nombre_travee - 1) : \A j \in 0..self.division :
            \E I \in OwnInertias(self, t, j) :
                FlecheWith(self, t, section, i, j, I)

\* C22: in the rotation and deflection surfaces the correction for the
\* observed span t is computed with span t's own length, modulus and
\* inertia for every loaded span i, and with a variable inertia the inertia
\* is that of a segment of span t's table holding the abscissa, never 0 and
\* never a value left from an earlier iteration.
C22_CorrectionUsesOwnSpan ==
    self.Courbe_fleche_en_travee # nullptr =>
        RotationUsesOwnSpan /\ FlecheUsesOwnSpan

\* the correction of the shear of span t for the load j of span i: the
\* difference of the moments at the right and left supports of span t over
\* the length of span t
ShearCorrection(h, i, t, j) ==
    RDiv(RSub(Deref(h.GAUCHE_DROITE)[i][t + 1][j],
              Deref(h.GAUCHE_DROITE)[i][t][j]),
         Deref(h.L_tr)[t])

\* where the sample of the load j of span i stands in the shear row of the
\* section s of span t, the first of the two for the load at the section
ShearIndex(h, t, s, i, j) ==
    i * (h.division + 1) + j
        + (IF i > t \/ (i = t /\ j > s) THEN 1 ELSE 0)

\* the isostatic shear that the sample of the load j of span i starts from
ShearIso(h, t, s, i, j) ==
    IF i # t THEN R(0)
    ELSE Deref(h.T_iso_total)[t][s][IF j > s THEN j + 1 ELSE j]

\* the shear row of the section s of span t holds the two samples of the
\* load at the section, one apart, and one sample of every other load
ShearRowStacksOnce(h, t, s) ==
    LET row == Deref(h.Courbe_effort_tranchant_en_travee)[t][s]
        p == ShearIndex(h, t, s, t, s)
        T_ == Deref(h.T_iso_total)[t][s]
    IN  /\ DOMAIN row = 0..(h.nombre_travee * (h.division + 1))
        /\ row[p] = RAdd(T_[s], ShearCorrection(h, t, t, s))
        /\ row[p + 1] = RAdd(T_[s + 1], ShearCorrection(h, t, t, s))
        /\ RSub(row[p + 1], row[p]) = R(1)
        /\ \A i \in 0..(h.nombre_travee - 1) : \A j \in 0..h.division :
               <<i, j>> # <<t, s>> =>
                   row[ShearIndex(h, t, s, i, j)]
                       = RAdd(ShearIso(h, t, s, i, j),
                              ShearCorrection(h, i, t, j))

\* C23: in every final shear row Courbe_effort_tranchant_en_travee[t][s]
\* the two stacked samples of the unit load at the section itself get the
\* same correction (GAUCHE_DROITE[t][t+1][s] - GAUCHE_DROITE[t][t][s]) / L_t
\* and so still differ by exactly 1, and every other load position gives
\* exactly one sample.
C23_ShearJumpKeptByCorrection ==
    self.Courbe_effort_tranchant_en_travee # nullptr =>
        \A t \in 0..(self.nombre_travee - 1) : \A s \in 0..self.division :
            ShearRowStacksOnce(self, t, s)

\* the shear surface of a structure of three spans is computed, and the
\* load at an interior section of the middle span gets a correction that
\* is not zero
C23_Witness_CorrectedJump ==
    /\ self.Courbe_effort_tranchant_en_travee # nullptr
    /\ self.nombre_travee = 3
    /\ self.division = 2
    /\ ShearCorrection(self, 1, 1, 1) # R(0)
    /\ Deref(self.Courbe_effort_tranchant_en_travee)[1][1][4]
           # Deref(self.T_iso_total)[1][1][1]

\* the coefficients a, b and c of every span are finite
FiniteCoefficients(h) ==
    LET rf == Deref(h.rap_cache)
    IN  \A i \in 0..(h.nombre_travee - 1) :
            IsFinite(rf.a[i]) /\ IsFinite(rf.b[i]) /\ IsFinite(rf.c[i])

\* the row v holds zeros only
IdenticallyZero(v) == \A k \in DOMAIN v : v[k] = R(0)

BelowHalf(x) == RLe(R(0), x) /\ RLt(x, <<1, 2>>)

\* the denominator of iteration i >= 1 of rapport_focau::phy
PhyDenominator(h, i) ==
    LET rf == Deref(h.rap_cache)
    IN  RSub(RAdd(rf.a[i], rf.c[i - 1]),
             RMul(rf.b[i - 1], Deref(h.phy)[i - 1]))

\* the denominator of the iteration with counter i < nb_travee of
\* rapport_focau::phy_prime, whose phy_prime_premier is the focal ratio of
\* span i
PhyPrimeDenominator(h, i) ==
    LET rf == Deref(h.rap_cache)
    IN  RSub(RAdd(rf.c[i - 1], rf.a[i]),
             RMul(rf.b[i], Deref(h.phy_prime)[i]))

\* the denominator of the local support moments of span i
LocalDenominator(h, i) ==
    RSub(R(1), RMul(Deref(h.phy)[i], Deref(h.phy_prime)[i]))

\* C27: in every structure of constant-inertia spans with L, E, I > 0 every
\* focal ratio satisfies 0 <= phi[i] < 1/2 and 0 <= phi_prime[i] < 1/2, no
\* denominator of the forward or of the backward recursion is zero, and
\* the denominator 1 - phi[i] * phi_prime[i] of the local support moments
\* is not zero.
C27_FocalRatiosBelowHalf ==
    (args.kind = "constant" /\ self.phy_prime # nullptr) =>
        /\ DOMAIN Deref(self.phy) = 0..(self.nombre_travee - 1)
        /\ DOMAIN Deref(self.phy_prime) = 0..(self.nombre_travee - 1)
        /\ \A i \in 0..(self.nombre_travee - 1) :
               /\ BelowHalf(Deref(self.phy)[i])
               /\ BelowHalf(Deref(self.phy_prime)[i])
               /\ IsFinite(LocalDenominator(self, i))
               /\ LocalDenominator(self, i) # R(0)
        /\ \A i \in 1..(self.nombre_travee - 1) :
               /\ IsFinite(PhyDenominator(self, i))
               /\ PhyDenominator(self, i) # R(0)
               /\ IsFinite(PhyPrimeDenominator(self, i))
               /\ PhyPrimeDenominator(self, i) # R(0)

\* the focal ratios of three constant-inertia spans are computed: those of
\* the middle span are both positive, and the forward ratios of the second
\* and third spans differ
C27_Witness_ThreeSpans ==
    /\ args.kind = "constant"
    /\ self.phy_prime # nullptr
    /\ self.nombre_travee = 3
    /\ RLt(R(0), Deref(self.phy)[1])
    /\ RLt(R(0), Deref(self.phy_prime)[1])
    /\ Deref(self.phy)[1] # Deref(self.phy)[2]

\* the abscissa of the load j of span i, counted from the left end of the
\* structure
LoadAbscissa(h, i, j) ==
    RAdd(Deref(h.alpha)[i][j], Accumulate(Deref(h.L_tr), i))

\* the abscissa row of the section s of span t is as long as the shear row
\* and holds, at the position of every sample of the shear row, the
\* abscissa of the load of the sample: the abscissa of the section twice,
\* at the positions of the two stacked samples, and nowhere else in the
\* part of the row that belongs to span t
AbscissaRowFollowsShearRow(h, t, s) ==
    LET row == Deref(h.Courbe_effort_tranchant_en_travee)[t][s]
        abscisses == Deref(h.Abscisse_Courbe_effort_tranchant_en_travee)[t][s]
        p == ShearIndex(h, t, s, t, s)
        first == t * (h.division + 1)
    IN  /\ DOMAIN row = 0..(h.nombre_travee * (h.division + 1))
        /\ DOMAIN abscisses = DOMAIN row
        /\ abscisses[p] = LoadAbscissa(h, t, s)
        /\ abscisses[p + 1] = LoadAbscissa(h, t, s)
        /\ \A i \in 0..(h.nombre_travee - 1) : \A j \in 0..h.division :
               abscisses[ShearIndex(h, t, s, i, j)] = LoadAbscissa(h, i, j)
        /\ \A q \in first..(first + h.division) :
               abscisses[q] = abscisses[q + 1] <=> q = p
        /\ RSub(row[p + 1], row[p]) = R(1)

\* C28: for every span t and section index s the final shear row and its
\* abscissa row Abscisse_Courbe_effort_tranchant_en_travee[t][s] have the
\* same length N * (D + 1) + 1, and the two positions of the abscissa row
\* that hold the duplicated abscissa are the two positions of the shear
\* row that hold the stacked samples of the jump.
C28_AbscissaRowAlignedWithShearRow ==
    self.Abscisse_Courbe_effort_tranchant_en_travee # nullptr =>
        /\ DOMAIN Deref(self.Abscisse_Courbe_effort_tranchant_en_travee)
               = 0..(self.nombre_travee - 1)
        /\ \A t \in 0..(self.nombre_travee - 1) :
               /\ DOMAIN Deref(
                      self.Abscisse_Courbe_effort_tranchant_en_travee)[t]
                      = 0..self.division
               /\ \A s \in 0..self.division :
                      AbscissaRowFollowsShearRow(self, t, s)

\* the abscissa rows of a structure of two spans of different lengths are
\* computed, and the row of an interior section of the second span holds
\* its duplicated abscissa after the abscissas of the first span
C28_Witness_SecondSpan ==
    /\ self.Abscisse_Courbe_effort_tranchant_en_travee # nullptr
    /\ self.nombre_travee = 2
    /\ self.division = 2
    /\ Deref(self.L_tr)[0] # Deref(self.L_tr)[1]
    /\ LET abscisses ==
               Deref(self.Abscisse_Courbe_effort_tranchant_en_travee)[1][1]
       IN  /\ abscisses[4] = abscisses[5]
           /\ abscisses[4] = RAdd(Deref(self.L_tr)[0],
                                  RDiv(Deref(self.L_tr)[1], R(2)))

(***************************************************************************)
(* The tasks and the solver's members.  The construction runs as in        *)
(* SpecFanOut, M_flechissant, W_rotaion and V_fleche with one task per     *)
(* span; the constructed solver is then exported once, in either format,   *)
(* with one task per artifact.  A task of the export is the sequence of    *)
(* the members it reads and of the methods of the solver it calls; it runs *)
(* in one step, and the caller pushes a task only while fewer than         *)
(* MaxEnCours tasks are unfinished.  The files are those of SpecExport.    *)
(***************************************************************************)

\* the members that are populated on first use
Caches ==
    {"iso_cache", "rap_cache", "cached_moment_gauche", "cached_moment_droite"}

\* the two export methods
ExportMethods == {"exporter_donnees_csv", "exporter_donnees_json"}

\* hyperstatique::exporter_donnees_csv: what each task evaluates, in the
\* order of the push_back
exporter_donnees_csv_reads(I_tr_empty) ==
    VecOf(<<<<"L_tr">>, <<"E_tr">>>>
          \o (IF I_tr_empty THEN <<<<"I_var">>, <<"pos_I_var">>>>
              ELSE <<<<"I_tr">>>>)
          \o <<<<"a_tr()">>, <<"b_tr()">>, <<"c_tr()">>, <<"phy">>,
              <<"phy_prime">>, <<"GAUCHE_DROITE">>, <<"Mu_iso_total">>,
              <<"W_iso_total">>, <<"V_iso_total">>, <<"T_iso_total">>,
              <<"abscisse_T_iso_total">>, <<"alpha">>,
              <<"Courbe_Moment_appuis">>, <<"courbe_R_appuit()">>,
              <<"Courbe_moment_en_travee">>, <<"Courbe_rotation_en_travee">>,
              <<"Courbe_fleche_en_travee">>,
              <<"Courbe_effort_tranchant_en_travee">>,
              <<"Abscisse_Courbe_effort_tranchant_en_travee">>,
              <<"abscisse_total">>>>)

\* hyperstatique::exporter_donnees_json: what each task evaluates, in the
\* order of the push_back
exporter_donnees_json_reads(I_tr_empty) ==
    VecOf(<<<<"L_tr">>, <<"L_tr">>, <<"E_tr">>>>
          \o (IF I_tr_empty
              THEN <<<<"I_var">>, <<"pos_I_var", "pos_I_var", "I_var">>>>
              ELSE <<<<"I_tr">>>>)
          \o <<<<"a_tr()">>, <<"b_tr()">>, <<"c_tr()">>, <<"phy">>,
              <<"phy_prime">>, <<"GAUCHE_DROITE">>, <<"Mu_iso_total">>,
              <<"W_iso_total">>, <<"V_iso_total">>, <<"T_iso_total">>,
              <<"abscisse_T_iso_total">>, <<"alpha">>,
              <<"Courbe_Moment_appuis">>, <<"Courbe_R_appuis">>,
              <<"Courbe_moment_en_travee">>, <<"Courbe_rotation_en_travee">>,
              <<"Courbe_fleche_en_travee">>,
              <<"Courbe_effort_tranchant_en_travee">>,
              <<"Abscisse_Courbe_effort_tranchant_en_travee">>,
              <<"abscisse_total">>>>)

\* the tasks of the export method that is running on the solver h
ExportReads(h, method) ==
    IF method = "exporter_donnees_csv"
    THEN exporter_donnees_csv_reads(Size(Deref(h.I_tr)) = 0)
    ELSE exporter_donnees_json_reads(Size(Deref(h.I_tr)) = 0)

\* the solver after a task evaluated the expression e: a_tr, b_tr and c_tr
\* call mise_en_place, which populates iso_cache when it is not populated;
\* courbe_R_appuit and the reads of the members leave the solver as it is
TaskEvaluates(h, e) ==
    IF e \in {"a_tr()", "b_tr()", "c_tr()"} THEN mise_en_place(h).obj
    ELSE h

\* the solver after a task evaluated the first n expressions of exprs
RECURSIVE TaskRuns(_, _, _)
TaskRuns(h, exprs, n) ==
    IF n = 0 THEN h
    ELSE TaskEvaluates(TaskRuns(h, exprs, n - 1), exprs[n])

InitShared ==
    /\ args \in {s \in FanOutArgs : s.nb_division = MaxDivision}
    /\ self = (IF args.kind = "constant"
               THEN hyperstatique_const_members(args.tous_longueur_travee,
                        args.tous_young_module, args.tous_Inertie,
                        args.nb_division)
               ELSE hyperstatique_var_members(args.tous_longueur_travee,
                        args.tous_young_module, args.tous_Inertie,
                        args.tous_x_coords, args.nb_division))
              @@ [futures |-> EmptyVec, hyp_total |-> EmptyVec,
                  exports |-> EmptyVec]
    /\ pc = "constructor"
    /\ thrown = ""

\* the caller calls exporter_donnees_csv or exporter_donnees_json on the
\* constructed solver
Exporter_call(method) ==
    /\ pc = "done"
    /\ pc' = method
    /\ UNCHANGED <<args, self, thrown>>

\* futures.push_back(std::async(std::launch::async, ...))
Exporter_push ==
    /\ pc \in ExportMethods
    /\ Size(self.exports) < Size(ExportReads(self, pc))
    /\ Cardinality({k \in DOMAIN self.exports : ~self.exports[k]})
           < MaxEnCours
    /\ self' = [self EXCEPT !.exports = push_back(@, FALSE)]
    /\ UNCHANGED <<args, pc, thrown>>

\* the task pushed at position k runs to its end
Exporter_task(k) ==
    /\ pc \in ExportMethods
    /\ k \in DOMAIN self.exports
    /\ ~self.exports[k]
    /\ LET exprs == ExportReads(self, pc)[k]
       IN  self' = [TaskRuns(self, exprs, Len(exprs)) EXCEPT
                        !.exports[k] = TRUE]
    /\ UNCHANGED <<args, pc, thrown>>

\* for (auto& future : futures) future.get(), then the method returns
Exporter_get ==
    /\ pc \in ExportMethods
    /\ Size(self.exports) = Size(ExportReads(self, pc))
    /\ \A k \in DOMAIN self.exports : self.exports[k]
    /\ self' = [self EXCEPT !.exports = EmptyVec]
    /\ pc' = "exported"
    /\ UNCHANGED <<args, thrown>>

NextShared ==
    \/ Constructor
    \/ Set_rap_cache
    \/ Set_phy
    \/ Set_phy_prime
    \/ Set_alpha
    \/ Set_abscisse_total
    \/ Set_GAUCHE_DROITE
    \/ Set_Courbe_Moment_appuis
    \/ Set_Mu_iso_total
    \/ Set_W_iso_total
    \/ Set_V_iso_total
    \/ Set_T_iso_total
    \/ Set_abscisse_T_iso_total
    \/ FanOut_push
    \/ \E index_travee \in 0..(MaxTravee - 1) : FanOut_task(index_travee)
    \/ FanOut_get
    \/ FanOut_return
    \/ Set_Courbe_effort_tranchant_en_travee
    \/ Set_Abscisse_Courbe_effort_tranchant_en_travee
    \/ Set_Courbe_R_appuis
    \/ \E method \in ExportMethods : Exporter_call(method)
    \/ Exporter_push
    \/ \E k \in DOMAIN self.exports : Exporter_task(k)
    \/ Exporter_get

SpecShared == InitShared /\ [][NextShared]_vars

\* the members of the solver: the object without the locals of the methods
SolverMembers(s) ==
    [f \in DOMAIN s \ {"futures", "hyp_total", "exports"} |-> s[f]]

\* a task is dispatched and the method that dispatched it has not returned
TasksDispatched ==
    \/ pc \in FanOutMethods /\ Size(self.futures) > 0
    \/ pc \in ExportMethods /\ Size(self.exports) > 0

\* the step is the run of one compute task: one future gets its result
ComputeTaskStep ==
    /\ pc \in FanOutMethods
    /\ DOMAIN self'.futures = DOMAIN self.futures
    /\ \E k \in DOMAIN self.futures :
           self.futures[k] = nullptr /\ self'.futures[k] # nullptr

\* the step is the run of one export task
ExportTaskStep ==
    /\ pc \in ExportMethods
    /\ DOMAIN self'.exports = DOMAIN self.exports
    /\ \E k \in DOMAIN self.exports : ~self.exports[k] /\ self'.exports[k]

\* a task writes no member of the solver and nothing of another task
TaskWritesOwnResultOnly ==
    (ComputeTaskStep \/ ExportTaskStep) =>
        /\ SolverMembers(self') = SolverMembers(self)
        /\ self'.hyp_total = self.hyp_total
        /\ Cardinality({k \in DOMAIN self.futures :
                            self'.futures[k] # self.futures[k]})
               + Cardinality({k \in DOMAIN self.exports :
                                  self'.exports[k] # self.exports[k]}) = 1

\* C24: while the tasks of M_flechissant, W_rotaion and V_fleche or the
\* tasks of exporter_donnees_csv and exporter_donnees_json run, no task
\* writes solver state shared with another task: a compute task writes only
\* its own result, and iso_cache, rap_cache, cached_moment_gauche and
\* cached_moment_droite are populated before the first task is dispatched,
\* so that no task enters a path that checks a cache and populates it.
C24_TasksWriteNoSharedState ==
    /\ [](TasksDispatched => \A m \in Caches : self[m] # nullptr)
    /\ [][TaskWritesOwnResultOnly]_vars

\* two tasks of an export are unfinished together, after the task that
\* calls a_tr has run, on a solver of two spans or more
C24_Witness_ConcurrentExport ==
    /\ pc \in ExportMethods
    /\ self.nombre_travee >= 2
    /\ Cardinality({k \in DOMAIN self.exports : ~self.exports[k]}) = 2
    /\ \E k \in DOMAIN self.exports :
           self.exports[k] /\ ExportReads(self, pc)[k] = <<"a_tr()">>

(***************************************************************************)
(* The setters of a span.  A travee of constant inertia is constructed,    *)
(* then set_longueur, set_young_modul and set_Inerti are called, at most   *)
(* MaxSetterCalls times in all and in any order, and then a(), b(), c()    *)
(* and the isostatic outputs of the span are read.  pc is the method       *)
(* called last.                                                            *)
(***************************************************************************)
MaxSetterCalls == 2

\* travee::set_longueur, set_young_modul, set_Inerti
set_longueur(t, l) == [t EXCEPT !.longueur = l]

set_young_modul(t, E) == [t EXCEPT !.Young = E]

set_Inerti(t, I) == [t EXCEPT !.Inertie = I]

\* what a(), b(), c() and the isostatic outputs of the span t return
span_outputs(t) ==
    [a |-> a(t), b |-> b(t), c |-> c(t),
     alpha |-> Deref(t.iso.abscisse),
     moment |-> moment_flechissant(t.iso),
     shear |-> effort_tranchant(t.iso),
     omega_prime |-> omega_prime(t.iso),
     omega_second |-> omega_second(t.iso),
     rotation |-> rotation(t.iso),
     fleche |-> fleche(t.iso)]

\* the values handed to the setters
SetterValues == {R(v) : v \in 1..MaxCoef}

InitSetters ==
    /\ args \in { [L |-> R(l), E |-> R(e), I |-> R(i), nb_division |-> d] :
                  <<l, e, i, d>> \in (1..MaxLongueur) \X (1..MaxCoef)
                      \X (1..MaxCoef) \X (1..MaxDivision) }
    /\ self = [span |-> Ptr(travee_const(args.L, args.E, args.I,
                                         args.nb_division).obj),
               calls |-> 0, ret |-> nullptr]
    /\ pc = "travee"
    /\ thrown = ""

Call_set_longueur(l) ==
    /\ self.calls < MaxSetterCalls
    /\ self' = [self EXCEPT !.span = Ptr(set_longueur(Deref(@), l)),
                            !.calls = @ + 1, !.ret = nullptr]
    /\ pc' = "set_longueur"
    /\ UNCHANGED <<args, thrown>>

Call_set_young_modul(E) ==
    /\ self.calls < MaxSetterCalls
    /\ self' = [self EXCEPT !.span = Ptr(set_young_modul(Deref(@), E)),
                            !.calls = @ + 1, !.ret = nullptr]
    /\ pc' = "set_young_modul"
    /\ UNCHANGED <<args, thrown>>

Call_set_Inerti(I) ==
    /\ self.calls < MaxSetterCalls
    /\ self' = [self EXCEPT !.span = Ptr(set_Inerti(Deref(@), I)),
                            !.calls = @ + 1, !.ret = nullptr]
    /\ pc' = "set_Inerti"
    /\ UNCHANGED <<args, thrown>>

\* a(), b(), c() and the isostatic outputs are read
Call_span_outputs ==
    /\ pc # "outputs"
    /\ self' = [self EXCEPT !.ret = Ptr(span_outputs(Deref(self.span)))]
    /\ pc' = "outputs"
    /\ UNCHANGED <<args, thrown>>

NextSetters ==
    \/ \E l \in SetterValues : Call_set_longueur(l)
    \/ \E E \in SetterValues : Call_set_young_modul(E)
    \/ \E I \in SetterValues : Call_set_Inerti(I)
    \/ Call_span_outputs

SpecSetters == InitSetters /\ [][NextSetters]_vars

\* C29: after any sequence of set_longueur, set_young_modul and set_Inerti
\* on a span, a(), b(), c() and the isostatic outputs (grid, moment, shear,
\* omega-prime, omega-second, rotation, deflection) are all computed from
\* the length, the modulus and the inertia last set: they are those of a
\* span that has these values.
C29_OutputsUseValuesLastSet ==
    pc = "outputs" =>
        LET t == Deref(self.span)
        IN  Deref(self.ret)
                = span_outputs(travee_const(t.longueur, t.Young, t.Inertie,
                                            args.nb_division).obj)

(***************************************************************************)
(* The areas of traitement.  A traitement is a hyperstatique of constant   *)
(* inertia with the members of traitement; its constructor runs the        *)
(* construction of the hyperstatique, then its initialiser list            *)
(* (Traitement_members), then traitement::initialiser_donnees.  A std::map *)
(* keyed "T_<travee>" or "S_<section>" is a vector indexed by the number   *)
(* of the key: the keys of the structures built here have one digit, and   *)
(* one-digit keys are ordered as their numbers are.  std::sort is the      *)
(* insertion sort it is for at most 16 elements, which keeps the order of  *)
(* equivalent elements.  The members M_travee_maxe,                        *)
(* M_deflections_travee_maxe, M_rotations_travee_maxe and                  *)
(* M_tranchants_travee_maxe, which hold no area, are not part of the       *)
(* state; max_1, which computes them, returns on every finite surface.     *)
(***************************************************************************)

\* a point <<abscisse, moment>> put in the vector v of points sorted by
\* abscissa, after the points that are not to its right
insert_by_abscisse(v, p) ==
    LET k == Cardinality({i \in DOMAIN v : ~RLt(p[1], v[i][1])})
    IN  Vector([i \in 0..Size(v) |->
                   IF i < k THEN v[i] ELSE IF i = k THEN p ELSE v[i - 1]])

\* abscisses_triees and moments_tries: the first n points of v sorted by
\* abscissa
RECURSIVE sort_by_abscisse(_, _)
sort_by_abscisse(v, n) ==
    IF n = 0 THEN EmptyVec
    ELSE insert_by_abscisse(sort_by_abscisse(v, n - 1), v[n - 1])

\* abscisses_uniques and moments_uniques: the loop "Supprimer les points en
\* double" from point i on
RECURSIVE uniques_from(_, _, _)
uniques_from(triees, i, uniques) ==
    IF i >= Size(triees) THEN uniques
    ELSE uniques_from(triees, i + 1,
             IF triees[i][1] # triees[i - 1][1]
             THEN push_back(uniques, triees[i]) ELSE uniques)

\* the test of the area aire_partie that trapeze returned
aire_valide(r) ==
    IF ~r.ok THEN r
    ELSE IF IsNaN(r.obj) \/ ~IsFinite(r.obj)
    THEN Throw("Calcul d'aire invalide : valeur NaN ou infinie detectee")
    ELSE r

\* the end of the body of the loop over parties, from the test of the
\* number of points on
aire_uniques(uniques) ==
    IF Size(uniques) < 2 THEN Built(R(0))
    ELSE aire_valide(trapeze([i \in DOMAIN uniques |-> uniques[i][1]],
                             [i \in DOMAIN uniques |-> uniques[i][2]]))

\* the body of the loop over parties from the sort on, points being the
\* points <<abscisses_partie[i], moments_partie[i]>>
aire_points(points) ==
    aire_uniques(uniques_from(sort_by_abscisse(points, Size(points)), 1,
                     push_back(EmptyVec,
                               sort_by_abscisse(points, Size(points))[0])))

\* the body of the loop over parties of aire_M_travee_section, for a partie
\* that is not empty: the area it pushes, or the exception
aire_partie(abscisses, partie) ==
    aire_points([i \in DOMAIN partie |->
                    <<abscisses[i % Size(abscisses)], partie[i]>>])

\* the areas aires with the area of the partie after them, or the exception
\* r of that partie
aires_with(aires, r) ==
    IF r.ok THEN Built(push_back(aires, r.obj)) ELSE r

\* the loop over parties of aire_M_travee_section over the first n parties:
\* the areas pushed, or the first exception
RECURSIVE aires_from(_, _, _)
aires_from(abscisses, parties, n) ==
    IF n = 0 THEN Built(EmptyVec)
    ELSE IF ~aires_from(abscisses, parties, n - 1).ok
    THEN aires_from(abscisses, parties, n - 1)
    ELSE IF Size(parties[n - 1]) = 0
    THEN aires_from(abscisses, parties, n - 1)
    ELSE aires_with(aires_from(abscisses, parties, n - 1).obj,
                    aire_partie(abscisses, parties[n - 1]))

\* the statements after the loop over parties: if (aires.empty())
aires_or_zero(r) ==
    IF r.ok /\ Size(r.obj) = 0 THEN Built(push_back(EmptyVec, R(0))) ELSE r

\* moments_reduits of aire_M_travee_section
moments_reduits(moments, abscisses) ==
    Vector([i \in 0..(Size(abscisses) - 1) |->
               LET index == i * (Size(moments) \div Size(abscisses))
               IN  moments[IF index >= Size(moments)
                           THEN Size(moments) - 1 ELSE index]])

\* aire_M_travee_section from "Verification finale de la taille des
\* vecteurs" on
aires_of_moments(abscisses, moments, parties) ==
    IF Size(abscisses) # Size(moments)
    THEN Throw("Mismatch entre les dimensions des abscisses et des moments")
    ELSE aires_or_zero(aires_from(abscisses, parties, Size(parties)))

\* aire_M_travee_section from the test of the size of moments on
aires_of_section(abscisses, moments) ==
    IF Size(moments) > Size(abscisses)
    THEN aires_of_moments(abscisses, moments_reduits(moments, abscisses),
             split_by_sign(moments_reduits(moments, abscisses)))
    ELSE aires_of_moments(abscisses, moments, split_by_sign(moments))

\* traitement::aire_M_travee_section
aire_M_travee_section(h, travee, section, courbe) ==
    IF \/ travee < 0 \/ travee >= h.nb_travee
       \/ section < 0 \/ section > h.nombre_morceau
    THEN Throw("Indices invalides")
    ELSE IF \/ travee >= Size(Deref(courbe))
            \/ section >= Size(Deref(courbe)[travee])
    THEN Throw("Indices hors limites de la courbe")
    ELSE aires_of_section(Deref(h.Alpha)[travee],
                          Deref(courbe)[travee][section])

\* the result of a function that fills cells[travee][section] in the order
\* of the spans and sections: the cells, or the first exception
result_of_cells(cells) ==
    LET failing == {e \in UNION { {t} \X (DOMAIN cells[t]) :
                                   t \in DOMAIN cells } :
                        ~cells[e[1]][e[2]].ok}
        first == CHOOSE e \in failing :
                     \A f \in failing :
                         e[1] < f[1] \/ (e[1] = f[1] /\ e[2] <= f[2])
    IN  IF failing = {}
        THEN Built(Vector([travee \in DOMAIN cells |->
                       Vector([section \in DOMAIN cells[travee] |->
                                  cells[travee][section].obj])]))
        ELSE cells[first[1]][first[2]]

\* traitement::aire_M_travee_jiaby: result[T_travee][S_section], or the first
\* exception of aire_M_travee_section
aire_M_travee_jiaby(h, courbe) ==
    result_of_cells(
        Vector([travee \in 0..(h.nb_travee - 1) |->
            Vector([section \in 0..h.nombre_morceau |->
                aire_M_travee_section(h, travee, section, courbe)])]))

\* the sum of the first n values of v added to acc, one value after the
\* other
RECURSIVE add_values(_, _, _)
add_values(acc, v, n) ==
    IF n = 0 THEN acc ELSE RAdd(add_values(acc, v, n - 1), v[n - 1])

\* section_sum["aire"] of somme_aires_par_section after the first n spans
\* of areas
RECURSIVE section_sum_aire(_, _, _)
section_sum_aire(areas, section, n) ==
    IF n = 0 THEN R(0)
    ELSE IF section \in DOMAIN areas[n - 1]
    THEN add_values(section_sum_aire(areas, section, n - 1),
                    areas[n - 1][section], Size(areas[n - 1][section]))
    ELSE section_sum_aire(areas, section, n - 1)

\* somme_aires_par_section from the loop over the spans on: result[T_travee]
\* is the vector of the maps {"S_<section>": section, "aire": sum}
section_sums(areas) ==
    IF ~areas.ok THEN areas
    ELSE Built(Vector([span \in DOMAIN areas.obj |->
             Vector([section \in DOMAIN areas.obj[span] |->
                 [S |-> section,
                  aire |-> section_sum_aire(areas.obj, section,
                                            Size(areas.obj))]])]))

\* traitement::somme_aires_par_section
somme_aires_par_section(h, courbe) ==
    section_sums(aire_M_travee_jiaby(h, courbe))

\* std::get<0>(a) > std::get<0>(b), the comparison of the sort of
\* trouver_plus_grandes_aires
greater_first(x, y) == RGt(x[1], y[1])

\* the tuple p put in the sorted vector v, after the tuples it is not to go
\* before
insert_aire(v, p) ==
    LET k == Cardinality({i \in DOMAIN v : ~greater_first(p, v[i])})
    IN  Vector([i \in 0..Size(v) |->
                   IF i < k THEN v[i] ELSE IF i = k THEN p ELSE v[i - 1]])

\* std::sort(toutes_aires.begin(), toutes_aires.end(), ...) of the first n
\* tuples
RECURSIVE sort_aires(_, _)
sort_aires(v, n) ==
    IF n = 0 THEN EmptyVec
    ELSE insert_aire(sort_aires(v, n - 1), v[n - 1])

\* toutes_aires of trouver_plus_grandes_aires before the sort: the tuples
\* of the first n spans
RECURSIVE toutes_aires(_, _)
toutes_aires(aires_travee, n) ==
    IF n = 0 THEN EmptyVec
    ELSE insert_end(toutes_aires(aires_travee, n - 1),
             [section \in DOMAIN aires_travee[n - 1] |->
                 <<fabs(aires_travee[n - 1][section][0]), n - 1, section>>])

\* the map pushed for a tuple of toutes_aires
aire_entry(tuple) ==
    [aire |-> tuple[1], travee |-> R(tuple[2]), section |-> R(tuple[3]),
     index_aire |-> R(0)]

\* trouver_plus_grandes_aires from "Extraire la plus grande aire" on
plus_grandes_of(sorted) ==
    [plus_grande_aire |->
         IF Size(sorted) # 0
         THEN push_back(EmptyVec, aire_entry(sorted[0]))
         ELSE EmptyVec,
     top_10_aires |->
         Vector([i \in 0..((IF Size(sorted) < 10 THEN Size(sorted)
                            ELSE 10) - 1) |->
                    aire_entry(sorted[i])])]

\* trouver_plus_grandes_aires from the sort on
plus_grandes_of_all(unsorted) ==
    plus_grandes_of(sort_aires(unsorted, Size(unsorted)))

\* trouver_plus_grandes_aires from the loop over aires_travee on
plus_grandes_of_aires(aires_travee) ==
    IF ~aires_travee.ok THEN aires_travee
    ELSE Built(plus_grandes_of_all(
                   toutes_aires(aires_travee.obj, Size(aires_travee.obj))))

\* traitement::trouver_plus_grandes_aires
trouver_plus_grandes_aires(h, courbe) ==
    plus_grandes_of_aires(aire_M_travee_jiaby(h, courbe))

\* the result of a function that fills a vector in the order of its
\* indices: the vector, or the first exception
result_of_vector(v) ==
    LET failing == {i \in DOMAIN v : ~v[i].ok}
    IN  IF failing = {}
        THEN Built(Vector([i \in DOMAIN v |-> v[i].obj]))
        ELSE v[CHOOSE i \in failing : \A f \in failing : i <= f]

\* traitement::aire_M_appuit for the row of support numero_appuit: the
\* areas of its blocks of size values, or the exception of trapeze
aire_of_row(h, row, size) ==
    result_of_vector(
        Vector([compteur \in 0..((Size(row) \div size) - 1) |->
            trapeze(Deref(h.Alpha)[compteur],
                    [k \in 0..(size - 1) |-> row[compteur * size + k]])]))

\* traitement::aire_M_appuit
aire_M_appuit(h, numero_appuit) ==
    aire_of_row(h, Deref(h.M_appuit)[numero_appuit], h.nombre_morceau + 1)

\* traitement::aire_M_appuit_jiaby: sorted_jiaby[M_i], or the first
\* exception of aire_M_appuit
aire_M_appuit_jiaby(h) ==
    result_of_vector(Vector([i \in 0..h.nb_travee |-> aire_M_appuit(h, i)]))

\* the members of traitement before its initialiser list has run
traitement_members ==
    [nombre_morceau |-> 0, nb_travee |-> 0, M_appuit |-> nullptr,
     Alpha |-> nullptr, coordonne |-> nullptr, aires_travee |-> nullptr,
     aire_M_appuis_par_travee |-> nullptr,
     plus_grandes_aires_moment |-> nullptr,
     somme_aires_sections_moment |-> nullptr,
     somme_aires_sections_fleche |-> nullptr,
     somme_aires_sections_rotation |-> nullptr,
     somme_aires_sections_tranchant |-> nullptr]

\* the largest nb_division of a traitement
MaxMorceau == 3

\* the spans of ConstSpans of modulus 1
AiresSpans == {sp \in ConstSpans : sp.E = 1}

\* the arguments of the constructor: those of ConstArgs, for at most travee
\* spans of AiresSpans cut in at most morceau pieces
AiresArgs(travee, morceau) ==
    { [kind |-> "constant",
       tous_longueur_travee |-> [i \in 0..(n - 1) |-> R(sp[i].L)],
       tous_young_module |-> DropLast([i \in 0..(n - 1) |-> R(sp[i].E)], cutE),
       tous_Inertie |-> DropLast([i \in 0..(n - 1) |-> R(sp[i].I)], cutI),
       tous_x_coords |-> EmptyVec,
       nb_division |-> d] :
      <<n, sp, cutE, cutI, d>> \in
          UNION { {n} \X [0..(n - 1) -> AiresSpans] \X (0..1) \X (0..1)
                      \X (-1..morceau) : n \in 0..travee } }

\* traitement t(tous_longueur_travee, tous_young_module, tous_Inertie,
\* nb_division): the construction of the base class starts
InitAires ==
    /\ args \in AiresArgs(MaxTravee, MaxMorceau)
    /\ self = hyperstatique_const_members(args.tous_longueur_travee,
                  args.tous_young_module, args.tous_Inertie,
                  args.nb_division) @@ traitement_members
    /\ pc = "constructor"
    /\ thrown = ""

\* the initialiser list of traitement::traitement, which runs when the
\* base class is constructed
Traitement_members ==
    /\ pc = "done"
    /\ self' = [self EXCEPT
           !.nombre_morceau = args.nb_division,
           !.nb_travee = Size(args.tous_longueur_travee),
           !.M_appuit = Ptr(Deref(self.Courbe_Moment_appuis)),
           !.Alpha = Ptr(Deref(self.alpha)),
           !.coordonne = Ptr(Deref(self.abscisse_total))]
    /\ pc' = "initialiser_donnees"
    /\ UNCHANGED <<args, thrown>>

\* the end of traitement::initialiser_donnees: the members hold what
\* steps, the calls in their order, returned, or the first exception ends
\* the construction
initialiser_donnees_ends(steps) ==
    LET failing == {k \in DOMAIN steps : ~steps[k].ok}
    IN  IF failing = {}
        THEN /\ self' = [self EXCEPT
                   !.aires_travee = Ptr(steps[1].obj),
                   !.aire_M_appuis_par_travee = Ptr(steps[2].obj),
                   !.plus_grandes_aires_moment = Ptr(steps[3].obj),
                   !.somme_aires_sections_moment = Ptr(steps[4].obj),
                   !.somme_aires_sections_fleche = Ptr(steps[5].obj),
                   !.somme_aires_sections_rotation = Ptr(steps[6].obj),
                   !.somme_aires_sections_tranchant = Ptr(steps[7].obj)]
             /\ pc' = "traitement"
             /\ UNCHANGED thrown
        ELSE /\ thrown' = steps[CHOOSE k \in failing :
                                    \A f \in failing : k <= f].what
             /\ pc' = "failed"
             /\ UNCHANGED self

\* traitement::initialiser_donnees: the statements in their order
Traitement_initialiser_donnees ==
    /\ pc = "initialiser_donnees"
    /\ initialiser_donnees_ends(
           <<aire_M_travee_jiaby(self, self.Courbe_moment_en_travee),
             aire_M_appuit_jiaby(self),
             trouver_plus_grandes_aires(self, self.Courbe_moment_en_travee),
             somme_aires_par_section(self, self.Courbe_moment_en_travee),
             somme_aires_par_section(self, self.Courbe_moment_en_travee),
             somme_aires_par_section(self, self.Courbe_moment_en_travee),
             somme_aires_par_section(self, self.Courbe_moment_en_travee)>>)
    /\ UNCHANGED args

NextAires ==
    \/ Next
    \/ Traitement_members
    \/ Traitement_initialiser_donnees

SpecAires == InitAires /\ [][NextAires]_vars

\* the member artifact holds what somme_aires_par_section gives for courbe
SumOfSurface(artifact, courbe) ==
    LET r == somme_aires_par_section(self, courbe)
    IN  r.ok /\ artifact = Ptr(r.obj)

\* C25: after traitement::initialiser_donnees, each of the four per-section
\* area-sum artifacts is computed from its own influence surface:
\* somme_aires_sections_moment from the moment surface, _fleche from the
\* deflection surface, _rotation from the rotation surface and _tranchant
\* from the shear surface.
C25_AreaSumsFromOwnSurface ==
    pc = "traitement" =>
        /\ SumOfSurface(self.somme_aires_sections_moment,
                        self.Courbe_moment_en_travee)
        /\ SumOfSurface(self.somme_aires_sections_fleche,
                        self.Courbe_fleche_en_travee)
        /\ SumOfSurface(self.somme_aires_sections_rotation,
                        self.Courbe_rotation_en_travee)
        /\ SumOfSurface(self.somme_aires_sections_tranchant,
                        self.Courbe_effort_tranchant_en_travee)

\* the number of (span, section) pairs of the areas aires
PairCount(aires) ==
    Cardinality(UNION { {t} \X (DOMAIN aires[t]) : t \in DOMAIN aires })

\* the entries of top are in non-increasing order of area, and none is
\* negative
NonIncreasingAreas(top) ==
    /\ \A i \in DOMAIN top : ~RLt(top[i].aire, R(0))
    /\ \A i \in DOMAIN top :
           (i + 1) \in DOMAIN top => ~RLt(top[i].aire, top[i + 1].aire)

\* no lobe of the areas aires is larger in absolute value than largest
NoLobeExceeds(aires, largest) ==
    \A t \in DOMAIN aires : \A s \in DOMAIN aires[t] :
        \A k \in DOMAIN aires[t][s] : ~RGt(fabs(aires[t][s][k]), largest)

\* C21: trouver_plus_grandes_aires returns top_10_aires sorted in
\* non-increasing order of absolute area, with min(10, number of (span,
\* section) pairs) entries, and plus_grande_aire equal to its first entry;
\* no lobe area computed by the per-section integration for any span and
\* section has an absolute value larger than the reported largest area.
C21_LargestAreasRanked ==
    pc = "traitement" =>
        LET result == Deref(self.plus_grandes_aires_moment)
            top == result.top_10_aires
            aires == Deref(self.aires_travee)
        IN  /\ Size(top) = (IF PairCount(aires) < 10
                            THEN PairCount(aires) ELSE 10)
            /\ DOMAIN top = 0..(Size(top) - 1)
            /\ NonIncreasingAreas(top)
            /\ Size(result.plus_grande_aire) = 1
            /\ result.plus_grande_aire[0] = top[0]
            /\ NoLobeExceeds(aires, result.plus_grande_aire[0].aire)

(***************************************************************************)
(* Configuration::loadFromFile.  A std::string is the sequence of its      *)
(* characters, the first at index 1; args.lines are the lines of           *)
(* input.txt, self is the Configuration with inputFile, the number of      *)
(* lines read.  pc goes from "loadFromFile" to "loaded", or to "failed"    *)
(* with thrown the message of the exception.  The numbers of the lines     *)
(* are written with digits only.                                           *)
(***************************************************************************)
MaxLines == 3

\* std::string::npos
npos == -1

\* line.find(key): the index from 0 of the first place where key is in
\* line, or npos
string_find(line, key) ==
    LET places == {p \in 0..(Len(line) - Len(key)) :
                      \A k \in 1..Len(key) : line[p + k] = key[k]}
    IN  IF places = {} THEN npos
        ELSE CHOOSE p \in places : \A q \in places : p <= q

\* line.substr(pos)
substr(line, pos) == SubSeq(line, pos + 1, Len(line))

\* value.erase(0, value.find_first_not_of(" \t"))
erase_leading(value) ==
    LET kept == {p \in 1..Len(value) : value[p] \notin {" ", "\t"}}
    IN  IF kept = {} THEN << >>
        ELSE SubSeq(value, CHOOSE p \in kept : \A q \in kept : p <= q,
                    Len(value))

\* value.erase(value.find_last_not_of(" \t") + 1)
erase_trailing(value) ==
    LET kept == {p \in 1..Len(value) : value[p] \notin {" ", "\t"}}
    IN  IF kept = {} THEN << >>
        ELSE SubSeq(value, 1, CHOOSE p \in kept : \A q \in kept : q <= p)

\* Parser::getValue
getValue(line) ==
    LET pos == string_find(line, <<":">>)
    IN  IF pos # npos
        THEN erase_trailing(erase_leading(substr(line, pos + 1)))
        ELSE << >>

\* the value of a digit
digit ==
    [ch \in {"0", "1", "2", "3", "4", "5", "6", "7", "8", "9"} |->
        CASE ch = "0" -> 0 [] ch = "1" -> 1 [] ch = "2" -> 2 [] ch = "3" -> 3
          [] ch = "4" -> 4 [] ch = "5" -> 5 [] ch = "6" -> 6 [] ch = "7" -> 7
          [] ch = "8" -> 8 [] ch = "9" -> 9]

\* the number of digits value starts with
RECURSIVE digits_of(_)
digits_of(value) ==
    IF Len(value) = 0 \/ value[1] \notin DOMAIN digit THEN 0
    ELSE 1 + digits_of(Tail(value))

\* the number the first n characters of value, all digits, are the decimal
\* writing of
RECURSIVE number_of(_, _)
number_of(value, n) ==
    IF n = 0 THEN 0 ELSE 10 * number_of(value, n - 1) + digit[value[n]]

\* std::stoi(value) for a value without sign: the number its leading
\* digits write, or std::invalid_argument
stoi(value) ==
    IF digits_of(erase_leading(value)) = 0 THEN Throw("stoi")
    ELSE Built(number_of(erase_leading(value),
                         digits_of(erase_leading(value))))

\* std::stod(value) for a value without sign, point and exponent
stod(value) ==
    IF digits_of(erase_leading(value)) = 0 THEN Throw("stod")
    ELSE Built(R(number_of(erase_leading(value),
                           digits_of(erase_leading(value)))))

\* std::to_string(n) for n of one digit
to_string(n) == CHOOSE ch \in DOMAIN digit : digit[ch] = n

\* the loop while (iss >> value) of parseVector: the numbers values starts
\* with, each after blanks, added to vector; the loop ends at the first
\* thing that is not a number
RECURSIVE extract_values(_, _)
extract_values(values, vector) ==
    LET rest == erase_leading(values)
        n == digits_of(rest)
    IN  IF n = 0 THEN vector
        ELSE extract_values(SubSeq(rest, n + 1, Len(rest)),
                            push_back(vector, R(number_of(rest, n))))

\* Parser::parseVector
parseVector(line) ==
    LET pos == string_find(line, <<":">>)
    IN  IF pos # npos
        THEN extract_values(erase_leading(substr(line, pos + 1)), EmptyVec)
        ELSE EmptyVec

\* the keys that loadFromFile looks for in a line
key_Longueur == <<"L", "o", "n", "g", "u", "e", "u", "r", ":">>

key_Precision == <<"P", "r", "e", "c", "i", "s", "i", "o", "n", ":">>

key_Beton == <<"B", "e", "t", "o", "n", ":">>

key_preference == <<"p", "r", "e", "f", "e", "r", "e", "n", "c", "e", ":">>

key_prise == <<"p", "r", "i", "s", "e", ":">>

key_condition == <<"c", "o", "n", "d", "i", "t", "i", "o", "n", ":">>

key_temps == <<"t", "e", "m", "p", "s", ":">>

key_Inertie_variable == <<"I", "n", "e", "r", "t", "i", "e", "_", "v", "a", "r", "i", "a", "b", "l", "e", ":">>

key_Iv == <<"I", "v", "_">>

key_Xv == <<"X", "v", "_">>

key_I == <<"I", ":">>

key_Steel == <<"S", "t", "e", "e", "l", ":">>

key_SteelCondition == <<"S", "t", "e", "e", "l", "C", "o", "n", "d", "i", "t", "i", "o", "n", ":">>

key_Wood == <<"W", "o", "o", "d", ":">>

key_WoodCondition == <<"W", "o", "o", "d", "C", "o", "n", "d", "i", "t", "i", "o", "n", ":">>

key_CHOICHE == <<"C", "H", "O", "I", "C", "H", "E", ":">>

\* Configuration::Configuration
Configuration ==
    [spans |-> EmptyVec, division |-> 0, betonClass |-> << >>,
     Preference |-> << >>, prise |-> << >>, choix |-> << >>, temps |-> 0,
     condition |-> << >>, acierClass |-> << >>, acierCodition |-> << >>,
     woodClass |-> << >>, woodCodition |-> << >>, inertieVariable |-> FALSE,
     I |-> R(0), Inertie |-> EmptyVec, pos_Inertie |-> EmptyVec,
     Inertie_varier |-> EmptyVec]

\* the loop over n of the branch else if (inertieVariable), from span n on
RECURSIVE variable_inertia_from(_, _, _)
variable_inertia_from(config, line, n) ==
    IF n >= Size(config.spans) THEN config
    ELSE LET iv == string_find(line, key_Iv \o <<to_string(n), ":">>) # npos
             xv == string_find(line, key_Xv \o <<to_string(n), ":">>) # npos
         IN  variable_inertia_from(
                 [config EXCEPT
                      !.Inertie_varier =
                          IF iv THEN push_back(@, parseVector(line)) ELSE @,
                      !.pos_Inertie =
                          IF xv THEN push_back(@, parseVector(line)) ELSE @],
                 line, n + 1)

\* config with the member field set to the number r.obj, or the exception r
assign_number(config, field, r) ==
    IF r.ok THEN Built([config EXCEPT ![field] = r.obj]) ELSE r

\* line.find(key) != std::string::npos
has_key(line, key) == string_find(line, key) # npos

\* the body of the loop while (std::getline(inputFile, line)) of
\* Configuration::loadFromFile: the Configuration after the line, or the
\* exception
loadFromFile_line(config, line) ==
    IF Len(line) = 0 \/ line[1] = "#" THEN Built(config)
    ELSE IF has_key(line, key_Longueur)
    THEN Built([config EXCEPT !.spans = parseVector(line)])
    ELSE IF has_key(line, key_Precision)
    THEN assign_number(config, "division", stoi(getValue(line)))
    ELSE IF has_key(line, key_Beton)
    THEN Built([config EXCEPT !.betonClass = getValue(line)])
    ELSE IF has_key(line, key_preference)
    THEN Built([config EXCEPT !.Preference = getValue(line)])
    ELSE IF has_key(line, key_prise)
    THEN Built([config EXCEPT !.prise = getValue(line)])
    ELSE IF has_key(line, key_condition)
    THEN Built([config EXCEPT !.condition = getValue(line)])
    ELSE IF has_key(line, key_temps)
    THEN assign_number(config, "temps", stoi(getValue(line)))
    ELSE IF has_key(line, key_Inertie_variable)
    THEN Built([config EXCEPT !.inertieVariable =
                    \/ string_find(getValue(line), <<"y">>) # npos
                    \/ string_find(getValue(line), <<"Y">>) # npos])
    ELSE IF config.inertieVariable
    THEN Built(variable_inertia_from(config, line, 0))
    ELSE IF has_key(line, key_I) /\ ~config.inertieVariable
    THEN LET r == stod(getValue(line))
         IN  IF r.ok
             THEN Built([config EXCEPT
                      !.I = r.obj,
                      !.Inertie = [n \in 0..(Size(config.spans) - 1) |->
                                      r.obj]])
             ELSE r
    ELSE IF has_key(line, key_Steel)
    THEN Built([config EXCEPT !.acierClass = getValue(line)])
    ELSE IF has_key(line, key_SteelCondition)
    THEN Built([config EXCEPT !.acierCodition = getValue(line)])
    ELSE IF has_key(line, key_Wood)
    THEN Built([config EXCEPT !.woodClass = getValue(line)])
    ELSE IF has_key(line, key_WoodCondition)
    THEN Built([config EXCEPT !.woodCodition = getValue(line)])
    ELSE IF has_key(line, key_CHOICHE)
    THEN Built([config EXCEPT !.choix = getValue(line)])
    ELSE Built(config)

\* the lines a file is made of
ConfigLines ==
    { <<"L", "o", "n", "g", "u", "e", "u", "r", ":", " ", "1", " ", "2">>,
      <<"I", ":", " ", "2">>,
      <<"I", "n", "e", "r", "t", "i", "e", "_", "v", "a", "r", "i", "a", "b", "l", "e", ":", " ", "y">>,
      <<"I", "n", "e", "r", "t", "i", "e", "_", "v", "a", "r", "i", "a", "b", "l", "e", ":", " ", "n">>,
      <<"S", "t", "e", "e", "l", ":", " ", "a">>,
      <<"S", "t", "e", "e", "l", "C", "o", "n", "d", "i", "t", "i", "o", "n", ":", " ", "b">>,
      <<"W", "o", "o", "d", ":", " ", "c">>,
      <<"W", "o", "o", "d", "C", "o", "n", "d", "i", "t", "i", "o", "n", ":", " ", "d">>,
      <<"C", "H", "O", "I", "C", "H", "E", ":", " ", "e">>,
      <<"P", "r", "e", "c", "i", "s", "i", "o", "n", ":", " ", "2">>,
      <<"I", "v", "_", "0", ":", " ", "1", " ", "2">>,
      <<"#", " ", "I", ":", " ", "3">> }

\* the key of a line: the line up to its first ":"
KeyOf(line) == SubSeq(line, 1, string_find(line, <<":">>))

\* the files of at most n lines of ConfigLines, no two with the same key
RECURSIVE ConfigFiles(_)
ConfigFiles(n) ==
    IF n = 0 THEN { << >> }
    ELSE LET shorter == ConfigFiles(n - 1)
         IN  shorter \cup
             { Append(f, l) : <<f, l>> \in
                 { e \in shorter \X ConfigLines :
                     \A k \in 1..Len(e[1]) :
                         KeyOf(e[1][k]) # KeyOf(e[2]) } }

\* Configuration config; config.loadFromFile(inputPath), with or without a
\* file input.txt in inputPath
InitConfig ==
    /\ args \in { [exists |-> TRUE, lines |-> f] : f \in ConfigFiles(MaxLines) }
               \cup { [exists |-> FALSE, lines |-> << >>] }
    /\ self = Configuration @@ [inputFile |-> 0]
    /\ pc = "loadFromFile"
    /\ thrown = ""

\* std::ifstream inputFile(inputPath + "/input.txt") and the test of
\* is_open()
Config_open ==
    /\ pc = "loadFromFile"
    /\ IF args.exists
       THEN pc' = "getline" /\ UNCHANGED thrown
       ELSE /\ pc' = "failed"
            /\ thrown' = "Erreur: Impossible d'ouvrir le fichier input.txt"
    /\ UNCHANGED <<args, self>>

\* one turn of the loop while (std::getline(inputFile, line))
Config_getline ==
    /\ pc = "getline"
    /\ self.inputFile < Len(args.lines)
    /\ LET r == loadFromFile_line(self, args.lines[self.inputFile + 1])
       IN  IF r.ok
           THEN /\ self' = [r.obj EXCEPT !.inputFile = @ + 1]
                /\ UNCHANGED <<pc, thrown>>
           ELSE /\ pc' = "failed"
                /\ thrown' = r.what
                /\ UNCHANGED self
    /\ UNCHANGED args

\* the end of the file: inputFile.close() and the test of spans.empty()
Config_close ==
    /\ pc = "getline"
    /\ self.inputFile >= Len(args.lines)
    /\ IF Size(self.spans) = 0
       THEN /\ pc' = "failed"
            /\ thrown' = "Error: No spans provided in input file!"
       ELSE pc' = "loaded" /\ UNCHANGED thrown
    /\ UNCHANGED <<args, self>>

NextConfig ==
    \/ Config_open
    \/ Config_getline
    \/ Config_close

SpecConfig == InitConfig /\ [][NextConfig]_vars

\* the Configuration and the exception after loadFromFile read the first n
\* lines of lines and, when all are read, the end of the file
RECURSIVE loadFromFile(_, _)
loadFromFile(lines, n) ==
    IF n = 0 THEN [config |-> Configuration, thrown |-> ""]
    ELSE LET before == loadFromFile(lines, n - 1)
             r == loadFromFile_line(before.config, lines[n])
         IN  IF before.thrown # "" THEN before
             ELSE IF r.ok THEN [config |-> r.obj, thrown |-> ""]
             ELSE [config |-> before.config, thrown |-> r.what]

\* the orderings of the lines of lines
Orderings(lines) ==
    { [k \in 1..Len(lines) |-> lines[p[k]]] :
        p \in { q \in [1..Len(lines) -> 1..Len(lines)] :
                   \A i, j \in 1..Len(lines) : q[i] = q[j] => i = j } }

\* the members of the Configuration self
ConfigurationOf(s) == [f \in DOMAIN Configuration |-> s[f]]

\* C30: Configuration::loadFromFile yields the same Configuration for every
\* ordering of the same set of key lines: a CHOICHE:, Steel:,
\* SteelCondition:, Wood:, WoodCondition: or I: line takes effect whether
\* it is before or after the Inertie_variable: line, and the
\* constant-inertia vector has one entry per span whether the I: line is
\* before or after the Longueur: line.
C30_SameConfigurationForEveryOrdering ==
    (pc \in {"loaded", "failed"} /\ args.exists) =>
        \A other \in Orderings(args.lines) :
            ConfigurationOf(self) =
                loadFromFile(other, Len(other)).config

=============================================================================
